---- MODULE Spec2Model ----
(***************************************************************************)
(* Model of metrima.core.fixed: the fixed-point decimal type Fx, a pair    *)
(* (value, scale) denoting value / 10^scale.                               *)
(*                                                                         *)
(* Python integers are unbounded, and true division works at 16 or more    *)
(* fractional digits, so an integer is modelled as a sign and a sequence   *)
(* of decimal digits (most significant first, no leading zero, zero being  *)
(* the digit 0 with no sign).  Text is a sequence of one-character         *)
(* strings.                                                                *)
(***************************************************************************)
EXTENDS Integers, Sequences, FiniteSets, TLC

(***************************************************************************)
(* Unbounded integers (Python int)                                         *)
(***************************************************************************)
Digit == 0..9

MagZero == <<0>>

\* drop leading zeros, keeping one digit
MagTrim(m) ==
    IF m /= <<>> /\ m[1] /= 0 THEN m
    ELSE LET nz == {i \in 1..Len(m) : m[i] /= 0}
         IN  IF nz = {} THEN MagZero
             ELSE SubSeq(m, CHOOSE i \in nz : \A j \in nz : i <= j, Len(m))

Zeros(k) == SubSeq([i \in 1..k |-> 0], 1, k)

\* the digit of m in column i of n columns, m standing at the right
Col(m, i, n) == IF i > n - Len(m) THEN m[i - (n - Len(m))] ELSE 0

\* a < b for magnitudes without leading zeros
MagLt(a, b) ==
    IF Len(a) /= Len(b) THEN Len(a) < Len(b)
    ELSE \E i \in 1..Len(a) : a[i] < b[i] /\ \A j \in 1..(i - 1) : a[j] = b[j]

\* the carry into column i: the nearest column to its right that overflows,
\* reached through columns that sum to 9
Carry(a, b, i, n) ==
    IF \E j \in (i + 1)..n :
           /\ Col(a, j, n) + Col(b, j, n) >= 10
           /\ \A k \in (i + 1)..(j - 1) : Col(a, k, n) + Col(b, k, n) = 9
    THEN 1 ELSE 0

MagAddCols(a, b, n) ==
    MagTrim(SubSeq([i \in 1..n |->
                       (Col(a, i, n) + Col(b, i, n) + Carry(a, b, i, n)) % 10], 1, n))

\* a + b
MagAdd(a, b) == MagAddCols(a, b, 1 + (IF Len(a) > Len(b) THEN Len(a) ELSE Len(b)))

\* the borrow from column i: the nearest column to its right that underflows,
\* reached through columns that are equal
Borrow(a, b, i, n) ==
    IF \E j \in (i + 1)..n :
           /\ a[j] < Col(b, j, n)
           /\ \A k \in (i + 1)..(j - 1) : a[k] = Col(b, k, n)
    THEN 1 ELSE 0

\* a - b for a >= b
MagSub(a, b) ==
    MagTrim(SubSeq([i \in 1..Len(a) |->
                       (a[i] - Col(b, i, Len(a)) - Borrow(a, b, i, Len(a)) + 10) % 10],
                   1, Len(a)))

\* the multiples b * 1, ..., b * 9 of b, by doubling
Multiples2(b) == <<b, MagAdd(b, b)>>
Multiples4(t) == t \o <<MagAdd(t[2], t[1]), MagAdd(t[2], t[2])>>
Multiples8(t) ==
    t \o <<MagAdd(t[4], t[1]), MagAdd(t[4], t[2]), MagAdd(t[4], t[3]), MagAdd(t[4], t[4])>>
Multiples9(t) == Append(t, MagAdd(t[8], t[1]))
Multiples(b) == Multiples9(Multiples8(Multiples4(Multiples2(b))))

\* the partial product of schoolbook multiplication for the digit d in column i
\* of n, tbl being the multiples of the other factor
MagMulDigit(tbl, d, i, n) ==
    IF d = 0 THEN MagZero ELSE tbl[d] \o Zeros(n - i)

RECURSIVE MagMulRange(_, _, _, _)
\* the sum of the partial products for the digits lo..hi of b
MagMulRange(b, tbl, lo, hi) ==
    IF lo >= hi THEN MagMulDigit(tbl, b[lo], lo, Len(b))
    ELSE MagAdd(MagMulRange(b, tbl, lo, (lo + hi) \div 2),
                MagMulRange(b, tbl, (lo + hi) \div 2 + 1, hi))

\* a power of ten
IsPow10(b) == b = <<1>> \o Zeros(Len(b) - 1)

\* schoolbook multiplication; by a power of ten, zeros are appended
MagMul(a, b) ==
    IF IsPow10(b) THEN MagTrim(a \o Zeros(Len(b) - 1))
    ELSE MagMulRange(b, Multiples(a), 1, Len(b))

\* the largest digit d with b * d <= r, tbl being the multiples of b
MagQuotDigit(r, tbl) == Cardinality({d \in 1..9 : ~MagLt(r, tbl[d])})

\* one step of long division: the quotient digit d of the running remainder cur
MagDivModDigit(tbl, q, cur, d) ==
    [q |-> Append(q, d), r |-> IF d = 0 THEN cur ELSE MagSub(cur, tbl[d])]

MagDivModCur(tbl, q, cur) == MagDivModDigit(tbl, q, cur, MagQuotDigit(cur, tbl))

\* the step for the next digit of a, the one after the Len(s.q) digits done
MagDivModStep(a, tbl, s) ==
    MagDivModCur(tbl, s.q, MagTrim(Append(s.r, a[Len(s.q) + 1])))

RECURSIVE MagDivModTo(_, _, _, _)
\* the steps for the digits of a up to digit hi, s being the quotient digits
\* and the remainder so far, halving the digits left
MagDivModTo(a, tbl, s, hi) ==
    IF Len(s.q) >= hi THEN s
    ELSE IF Len(s.q) + 1 = hi THEN MagDivModStep(a, tbl, s)
    ELSE MagDivModTo(a, tbl, MagDivModTo(a, tbl, s, (Len(s.q) + hi) \div 2), hi)

MagQuotRem(s) == [q |-> MagTrim(s.q), r |-> s.r]

\* the last k digits of a
MagLast(a, k) == IF k >= Len(a) THEN a ELSE MagTrim(SubSeq(a, Len(a) - k + 1, Len(a)))

\* quotient and remainder of a by b /= 0, by schoolbook long division; by a
\* power of ten, the last digits are split off
MagDivMod(a, b) ==
    IF IsPow10(b)
    THEN [q |-> MagTrim(SubSeq(a, 1, Len(a) - (Len(b) - 1))), r |-> MagLast(a, Len(b) - 1)]
    ELSE MagQuotRem(MagDivModTo(a, Multiples(b), [q |-> <<>>, r |-> MagZero], Len(a)))

\* a signed integer from a sign and a magnitude without leading zeros (minus
\* zero is zero)
MkInt(neg, m) == [neg |-> neg /\ m /= MagZero, mag |-> m]

RECURSIVE NatDigits(_)
NatDigits(k) == IF k < 10 THEN <<k>> ELSE Append(NatDigits(k \div 10), k % 10)

\* the integer k (a small integer of the model) as an unbounded integer
IntOf(k) == IF k < 0 THEN MkInt(TRUE, NatDigits(-k)) ELSE MkInt(FALSE, NatDigits(k))

IntZero == [neg |-> FALSE, mag |-> <<0>>]
IntOne == [neg |-> FALSE, mag |-> <<1>>]
IntTen == [neg |-> FALSE, mag |-> <<1, 0>>]

IntNeg(a) == MkInt(~a.neg, a.mag)
IntAbs(a) == MkInt(FALSE, a.mag)

IntLt(a, b) ==
    IF a.neg /= b.neg THEN a.neg
    ELSE IF a.neg THEN MagLt(b.mag, a.mag)
    ELSE MagLt(a.mag, b.mag)

IntLe(a, b) == a = b \/ IntLt(a, b)

IntAdd(a, b) ==
    IF a.neg = b.neg THEN MkInt(a.neg, MagAdd(a.mag, b.mag))
    ELSE IF MagLt(a.mag, b.mag) THEN MkInt(b.neg, MagSub(b.mag, a.mag))
    ELSE MkInt(a.neg, MagSub(a.mag, b.mag))

IntSub(a, b) == IntAdd(a, IntNeg(b))

IntMul(a, b) == MkInt(a.neg /= b.neg, MagMul(a.mag, b.mag))

\* 10 ** k
IntPow10(k) == MkInt(FALSE, <<1>> \o Zeros(k))

\* the signs of Python's // and %: the quotient is floored and the remainder
\* takes the sign of the divisor; qr divides the magnitudes
FloorDivMod(a, b, qr) ==
    IF a.neg = b.neg \/ qr.r = MagZero
    THEN [q |-> MkInt(a.neg /= b.neg, qr.q), r |-> MkInt(b.neg, qr.r)]
    ELSE [q |-> MkInt(TRUE, MagAdd(qr.q, <<1>>)),
          r |-> MkInt(b.neg, MagSub(b.mag, qr.r))]

\* (a // b, a % b), b /= 0
IntDivMod(a, b) == FloorDivMod(a, b, MagDivMod(a.mag, b.mag))

IntFloorDiv(a, b) == IntDivMod(a, b).q
IntMod(a, b) == IntDivMod(a, b).r

RECURSIVE MagVal(_)
MagVal(m) == IF m = <<>> THEN 0 ELSE 10 * MagVal(SubSeq(m, 1, Len(m) - 1)) + m[Len(m)]

\* the value of an unbounded integer short enough for the model's integers
IntVal(a) == IF a.neg THEN -MagVal(a.mag) ELSE MagVal(a.mag)

(***************************************************************************)
(* Text (Python str) and the int() and str() conversions                   *)
(***************************************************************************)
DigitChars == <<"0", "1", "2", "3", "4", "5", "6", "7", "8", "9">>

IsDigitChar(c) == \E d \in Digit : DigitChars[d + 1] = c
CharDigit(c) == CHOOSE d \in Digit : DigitChars[d + 1] = c

\* str(k) of an int
IntStr(a) ==
    (IF a.neg THEN <<"-">> ELSE <<>>) \o [i \in 1..Len(a.mag) |-> DigitChars[a.mag[i] + 1]]

RECURSIVE StripLeft(_)
StripLeft(s) == IF s /= <<>> /\ s[1] = " " THEN StripLeft(Tail(s)) ELSE s

RECURSIVE StripRight(_)
StripRight(s) ==
    IF s /= <<>> /\ s[Len(s)] = " " THEN StripRight(SubSeq(s, 1, Len(s) - 1)) ELSE s

\* the digits of a numeral: digits, single underscores allowed between two digits
IsNumeralBody(t) ==
    /\ t /= <<>>
    /\ IsDigitChar(t[1])
    /\ IsDigitChar(t[Len(t)])
    /\ \A i \in 1..Len(t) : IsDigitChar(t[i]) \/ t[i] = "_"
    /\ \A i \in 1..(Len(t) - 1) : ~(t[i] = "_" /\ t[i + 1] = "_")

RECURSIVE BodyDigits(_)
BodyDigits(t) ==
    IF t = <<>> THEN <<>>
    ELSE IF t[1] = "_" THEN BodyDigits(Tail(t))
    ELSE <<CharDigit(t[1])>> \o BodyDigits(Tail(t))

\* the numeral after the sign; ok = FALSE stands for ValueError
ParseBody(neg, body) ==
    IF IsNumeralBody(body)
    THEN [ok |-> TRUE, val |-> MkInt(neg, MagTrim(BodyDigits(body)))]
    ELSE [ok |-> FALSE, val |-> IntZero]

ParseSigned(t) ==
    IF t /= <<>> /\ t[1] \in {"+", "-"} THEN ParseBody(t[1] = "-", Tail(t))
    ELSE ParseBody(FALSE, t)

\* int(s) of a str: surrounding blanks, one sign, then the numeral
IntParse(s) == ParseSigned(StripRight(StripLeft(s)))

\* the places of '.' in s
Dots(s) == {i \in 1..Len(s) : s[i] = "."}

(***************************************************************************)
(* Values: an Fx is its two fields; an operand of any Python type carries  *)
(* its type, its fields if it is an Fx, and otherwise its str() text,      *)
(* which is all that Fx reads of an int, a float or a str.                 *)
(***************************************************************************)
MkFx(v, sc) == [value |-> v, scale |-> sc]
FxNone == MkFx(IntZero, 0)

PyFx(f) == [kind |-> "Fx", fx |-> f, text |-> <<>>]
PyInt(n) == [kind |-> "int", fx |-> FxNone, text |-> IntStr(IntOf(n))]
PyFloat(t) == [kind |-> "float", fx |-> FxNone, text |-> t]
PyStr(t) == [kind |-> "str", fx |-> FxNone, text |-> t]
PyNone == [kind |-> "NoneType", fx |-> FxNone, text |-> <<"N", "o", "n", "e">>]
PyList == [kind |-> "list", fx |-> FxNone, text |-> <<"[", "]">>]

\* What a call yields: an Fx, a bool, a str (text), the hash of a tuple of the
\* two fields (kind "hash", the tuple in fx), the NotImplemented singleton or a
\* raised exception; self holds the receiver's fields when the call ends, via
\* the branch taken where the claims ask for it.
RetFx(self, f) ==
    [kind |-> "Fx", fx |-> f, flag |-> FALSE, exc |-> "", via |-> "", text |-> <<>>,
     self |-> self]
RetBool(self, b) ==
    [kind |-> "bool", fx |-> FxNone, flag |-> b, exc |-> "", via |-> "", text |-> <<>>,
     self |-> self]
RetStr(self, t) ==
    [kind |-> "str", fx |-> FxNone, flag |-> FALSE, exc |-> "", via |-> "", text |-> t,
     self |-> self]
RetHash(self, f) ==
    [kind |-> "hash", fx |-> f, flag |-> FALSE, exc |-> "", via |-> "", text |-> <<>>,
     self |-> self]
RetNotImplemented(self) ==
    [kind |-> "NotImplemented", fx |-> FxNone, flag |-> FALSE, exc |-> "", via |-> "",
     text |-> <<>>, self |-> self]
Raise(self, e) ==
    [kind |-> "raise", fx |-> FxNone, flag |-> FALSE, exc |-> e, via |-> "",
     text |-> <<>>, self |-> self]
NoResult ==
    [kind |-> "none", fx |-> FxNone, flag |-> FALSE, exc |-> "", via |-> "",
     text |-> <<>>, self |-> FxNone]

\* a constructed object is the receiver of its own constructor
RetNew(f) == RetFx(f, f)

\* the outcome of a call made inside a method of self
Within(self, out) == [out EXCEPT !.self = self]

\* the least working scale of true division
MinPrecision == 16

(***************************************************************************)
(* class Fx                                                                *)
(***************************************************************************)
\* how often the loop of Fx._normalize runs: while scale > 0 and value is a
\* multiple of ten, that is once for every k <= scale with 10^k dividing value
NormalizeSteps(f) ==
    Cardinality({k \in 1..f.scale : IntMod(f.value, IntPow10(k)) = IntZero})

\* a loop that decrements the scale and leaves the mantissa
NormalizeLoopScale(f, k) == MkFx(f.value, f.scale - k)

\* the fields after k runs of value //= 10; scale -= 1
NormalizeLoop(f, k) == MkFx(IntFloorDiv(f.value, IntPow10(k)), f.scale - k)

\* a _normalize that strips nothing
NormalizeNone(f) == f

\* a _normalize whose loop runs once at most
NormalizeOnce(f) ==
    IF f.value = IntZero THEN MkFx(f.value, 0)
    ELSE NormalizeLoop(f, IF NormalizeSteps(f) > 0 THEN 1 ELSE 0)

\* Fx._normalize
_normalize(f) ==
    IF f.value = IntZero THEN MkFx(f.value, 0) ELSE NormalizeLoop(f, NormalizeSteps(f))

\* the end of Fx.__init__ for a parsed literal: self._normalize()
InitParsed(p, scale) ==
    IF p.ok THEN RetNew(_normalize(MkFx(p.val, scale)))
    ELSE Raise(FxNone, "ValueError")

\* the two parts read as two integers, the sign staying with the whole part
PartsParsed(w, f, scale) ==
    IF w.ok /\ f.ok
    THEN [ok |-> TRUE, val |-> IntAdd(IntMul(w.val, IntPow10(scale)), f.val)]
    ELSE [ok |-> FALSE, val |-> IntZero]

InitSplitParts(s, d) ==
    InitParsed(PartsParsed(IntParse(SubSeq(s, 1, d - 1)), IntParse(SubSeq(s, d + 1, Len(s))),
                           Len(s) - d),
               Len(s) - d)

\* whole, frac = s.split('.') for the one '.' at place d
InitSplit(s, d) ==
    InitParsed(IntParse(SubSeq(s, 1, d - 1) \o SubSeq(s, d + 1, Len(s))), Len(s) - d)

InitFromText(s, dots) ==
    IF dots = {} THEN InitParsed(IntParse(s), 0)
    ELSE IF Cardinality(dots) > 1 THEN Raise(FxNone, "ValueError")
    ELSE InitSplit(s, CHOOSE i \in dots : TRUE)

\* Fx.__init__
__init__(value) ==
    IF value.kind = "Fx" THEN RetNew(MkFx(value.fx.value, value.fx.scale))
    ELSE InitFromText(value.text, Dots(value.text))

\* fx(value)
fx(value) == __init__(value)

\* Fx.copy
copy(self) == RetFx(self, MkFx(self.value, self.scale))

\* an alignment to the receiver's scale, which cuts the digits of other beyond
\* it
AlignToSelf(self, other) ==
    IF self.scale >= other.scale
    THEN [a |-> self.value,
          b |-> IntMul(other.value, IntPow10(self.scale - other.scale)),
          scale |-> self.scale]
    ELSE [a |-> self.value,
          b |-> IntFloorDiv(other.value, IntPow10(other.scale - self.scale)),
          scale |-> self.scale]

\* Fx._align, other being an Fx
_align(self, other) ==
    IF self.scale = other.scale
    THEN [a |-> self.value, b |-> other.value, scale |-> self.scale]
    ELSE IF self.scale > other.scale
    THEN [a |-> self.value,
          b |-> IntMul(other.value, IntPow10(self.scale - other.scale)),
          scale |-> self.scale]
    ELSE [a |-> IntMul(self.value, IntPow10(other.scale - self.scale)),
          b |-> other.value,
          scale |-> other.scale]

\* Fx._to_fx
_to_fx(self, other) ==
    IF other.kind = "Fx" THEN RetFx(self, other.fx)
    ELSE IF other.kind \in {"int", "float", "str"} THEN Within(self, fx(other))
    ELSE Raise(self, "NotImplementedError")

\* an equality of the mantissas as they stand, not aligned
EqUnaligned(self, other, al) == RetBool(self, self.value = other.value)

EqAligned(self, other, al) == RetBool(self, al.a = al.b)

\* Fx.__eq__ once other is coerced; an exception of the coercion leaves the
\* method
EqCoerced(self, o) ==
    IF o.kind = "raise" THEN o ELSE EqAligned(self, o.fx, _align(self, o.fx))

\* Fx.__eq__
__eq__(self, other) == EqCoerced(self, _to_fx(self, other))

NeAligned(self, other, al) == RetBool(self, al.a /= al.b)

NeCoerced(self, o) ==
    IF o.kind = "raise" THEN o ELSE NeAligned(self, o.fx, _align(self, o.fx))

\* Fx.__ne__
__ne__(self, other) == NeCoerced(self, _to_fx(self, other))

\* Fx.__neg__
__neg__(self) == RetFx(self, _normalize(MkFx(IntNeg(self.value), self.scale)))

\* Fx.__pos__
__pos__(self) == RetFx(self, _normalize(MkFx(self.value, self.scale)))

\* Fx.__abs__
__abs__(self) == RetFx(self, _normalize(MkFx(IntAbs(self.value), self.scale)))

\* an addition of the mantissas as they stand, not aligned
AddUnaligned(self, other, al) ==
    RetFx(self, _normalize(MkFx(IntAdd(self.value, other.value), al.scale)))

AddAligned(self, other, al) ==
    RetFx(self, _normalize(MkFx(IntAdd(al.a, al.b), al.scale)))
AddCoerced(self, o) ==
    IF o.kind = "raise" THEN o ELSE AddAligned(self, o.fx, _align(self, o.fx))

\* Fx.__add__
__add__(self, other) == AddCoerced(self, _to_fx(self, other))

SubAligned(self, other, al) ==
    RetFx(self, _normalize(MkFx(IntSub(al.a, al.b), al.scale)))
SubCoerced(self, o) ==
    IF o.kind = "raise" THEN o ELSE SubAligned(self, o.fx, _align(self, o.fx))

\* Fx.__sub__
__sub__(self, other) == SubCoerced(self, _to_fx(self, other))

\* a multiplication that takes the receiver's scale for both
MulSelfScale(self, other) ==
    RetFx(self, _normalize(MkFx(IntMul(self.value, other.value),
                                self.scale + self.scale)))

MulFx(self, other) ==
    RetFx(self, _normalize(MkFx(IntMul(self.value, other.value),
                                self.scale + other.scale)))
MulCoerced(self, o) == IF o.kind = "raise" THEN o ELSE MulFx(self, o.fx)

\* Fx.__mul__
__mul__(self, other) == MulCoerced(self, _to_fx(self, other))

\* a working scale that never leaves the least one
CalcPrecisionLeast(self, other) == MinPrecision

\* calc_precision of Fx.__truediv__
CalcPrecision(self, other) ==
    IF self.scale + other.scale + 4 > MinPrecision
    THEN self.scale + other.scale + 4 ELSE MinPrecision

\* Fx.__truediv__ before the result is normalized
TrueDivRaw(self, other, al) ==
    MkFx(IntFloorDiv(IntMul(al.a, IntPow10(CalcPrecision(self, other))), al.b),
         CalcPrecision(self, other))

TrueDivAligned(self, other, al) ==
    RetFx(self, _normalize(TrueDivRaw(self, other, al)))
\* a division that gives a zero divisor back as the quotient
TrueDivUnchecked(self, o) ==
    IF o.kind = "raise" THEN o
    ELSE IF o.fx.value = IntZero THEN RetFx(self, o.fx)
    ELSE TrueDivAligned(self, o.fx, _align(self, o.fx))

\* Fx.__truediv__ once other is coerced: a zero divisor raises before the
\* alignment
TrueDivCoerced(self, o) ==
    IF o.kind = "raise" THEN o
    ELSE IF o.fx.value = IntZero THEN Raise(self, "ZeroDivisionError")
    ELSE TrueDivAligned(self, o.fx, _align(self, o.fx))

\* Fx.__truediv__
__truediv__(self, other) == TrueDivCoerced(self, _to_fx(self, other))

\* a floor division that rounds toward zero
FloorDivTruncated(self, other, al) ==
    RetFx(self, _normalize(MkFx(MkInt(al.a.neg /= al.b.neg,
                                      MagDivMod(al.a.mag, al.b.mag).q), 0)))

\* a floor division of the mantissas as they are stored
FloorDivUnaligned(self, other, al) ==
    RetFx(self, _normalize(MkFx(IntFloorDiv(self.value, other.value), 0)))

FloorDivAligned(self, other, al) ==
    RetFx(self, _normalize(MkFx(IntFloorDiv(al.a, al.b), 0)))
FloorDivCoerced(self, o) ==
    IF o.kind = "raise" THEN o
    ELSE IF o.fx.value = IntZero THEN Raise(self, "ZeroDivisionError")
    ELSE FloorDivAligned(self, o.fx, _align(self, o.fx))

\* Fx.__floordiv__
__floordiv__(self, other) == FloorDivCoerced(self, _to_fx(self, other))

\* a modulo whose sign follows the dividend
ModTruncated(self, other, al) ==
    IF al.b = IntZero THEN Raise(self, "ZeroDivisionError")
    ELSE RetFx(self, _normalize(MkFx(MkInt(al.a.neg, MagDivMod(al.a.mag, al.b.mag).r),
                                     al.scale)))

\* a modulo that gives the dividend back when the divisor is zero
ModByZero(self, other, al) ==
    IF al.b = IntZero THEN RetFx(self, _normalize(MkFx(al.a, al.scale)))
    ELSE RetFx(self, _normalize(MkFx(IntMod(al.a, al.b), al.scale)))

\* the int % of a zero divisor raises ZeroDivisionError
ModAligned(self, other, al) ==
    IF al.b = IntZero THEN Raise(self, "ZeroDivisionError")
    ELSE RetFx(self, _normalize(MkFx(IntMod(al.a, al.b), al.scale)))
ModCoerced(self, o) ==
    IF o.kind = "raise" THEN o ELSE ModAligned(self, o.fx, _align(self, o.fx))

\* Fx.__mod__
__mod__(self, other) == ModCoerced(self, _to_fx(self, other))

\* a loop of ** that multiplies once at most
PowOnce(base, k) == IF k <= 0 THEN fx(PyInt(1)).fx ELSE base

RECURSIVE PowLoop(_, _)
\* result = Fx(1), then k times result *= base (Fx has no __imul__: this is
\* result = result * base)
PowLoop(base, k) ==
    IF k <= 0 THEN fx(PyInt(1)).fx
    ELSE __mul__(PowLoop(base, k - 1), PyFx(base)).fx

\* the exponent of Fx.__pow__ as an Fx
PowOperand(self, other) ==
    IF other.kind \in {"int", "float"} THEN Within(self, fx(other))
    ELSE IF other.kind = "Fx" THEN RetFx(self, other.fx)
    ELSE RetNotImplemented(self)

\* the two branches of Fx.__pow__; fl is the text str() gives for the float
\* base_float ** exponent of the fallback branch, read in that branch only
PowBranch(self, o, fl) ==
    IF o.kind /= "Fx" THEN o
    ELSE IF o.fx.scale = 0 /\ IntLe(IntZero, o.fx.value)
    THEN [RetFx(self, PowLoop(self, IntVal(o.fx.value))) EXCEPT !.via = "int"]
    ELSE IF self.value = IntZero /\ o.fx.value.neg
    THEN [Raise(self, "ZeroDivisionError") EXCEPT !.via = "float"]
    ELSE [Within(self, fx(PyFloat(fl))) EXCEPT !.via = "float"]

\* Fx.__pow__
__pow__(self, other, fl) == PowBranch(self, PowOperand(self, other), fl)

\* other / self, c being fx(other), the receiver of /
TrueDivOf(self, c) ==
    IF c.kind = "raise" THEN Within(self, c)
    ELSE Within(self, __truediv__(c.fx, PyFx(self)))

\* Fx.__rtruediv__
__rtruediv__(self, other) == TrueDivOf(self, fx(other))

\* other // self, c being fx(other), the receiver of //
FloorDivOf(self, c) ==
    IF c.kind = "raise" THEN Within(self, c)
    ELSE Within(self, __floordiv__(c.fx, PyFx(self)))

\* Fx.__rfloordiv__
__rfloordiv__(self, other) == FloorDivOf(self, fx(other))

\* other ** self, c being fx(other), the receiver of **
PowOf(self, c, fl) ==
    IF c.kind = "raise" THEN Within(self, c)
    ELSE Within(self, __pow__(c.fx, PyFx(self), fl))
\* Fx.__rpow__: other ** self
__rpow__(self, other, fl) == PowOf(self, fx(other), fl)

\* Fx.is_zero
is_zero(self) == RetBool(self, self.value = IntZero)

\* an is_integer that looks at the last digit of the mantissa
IsIntegerDigit(self) == RetBool(self, IntMod(self.value, IntTen) = IntZero)

\* Fx.is_integer
is_integer(self) == RetBool(self, self.scale = 0)

\* lib.is_whole for an int, an Fx (number % 1 == 0) and a value of another
\* type; a float is not passed to it
is_whole(number) ==
    IF number.kind = "int" THEN RetBool(FxNone, TRUE)
    ELSE IF number.kind = "Fx"
         THEN __eq__(__mod__(number.fx, PyInt(1)).fx, PyInt(0))
         ELSE RetBool(FxNone, FALSE)

\* bool(self): the class defines neither __bool__ nor __len__, and the truth
\* value of such an object is True
bool(self) == RetBool(self, TRUE)

\* Fx.__hash__: hash((self.value, self.scale)), the hash of a tuple being a
\* function of the tuple
__hash__(self) == RetHash(self, MkFx(self.value, self.scale))

\* a zfill that pads nothing
ZFillNone(s, width) == s

\* str.zfill(width) of a text without a sign
ZFill(s, width) ==
    IF Len(s) >= width THEN s
    ELSE SubSeq([i \in 1..width |->
                    IF i <= width - Len(s) THEN "0" ELSE s[i - (width - Len(s))]],
                1, width)

\* s[:-k] and s[-k:] for k > 0
SliceHead(s, k) == IF Len(s) > k THEN SubSeq(s, 1, Len(s) - k) ELSE <<>>
SliceTail(s, k) == IF Len(s) > k THEN SubSeq(s, Len(s) - k + 1, Len(s)) ELSE s

\* f"{sign}{integer_part}.{fractional_part}" of Fx.__str__
StrJoin(self, val_str) ==
    (IF self.value.neg THEN <<"-">> ELSE <<>>)
        \o SliceHead(val_str, self.scale) \o <<".">> \o SliceTail(val_str, self.scale)

\* Fx.__str__
__str__(self) ==
    IF self.scale = 0 THEN RetStr(self, IntStr(self.value))
    ELSE RetStr(self, StrJoin(self, ZFill(IntStr(IntAbs(self.value)), self.scale + 1)))

GtAligned(self, other, al) == RetBool(self, IntLt(al.b, al.a))
GtCoerced(self, o) ==
    IF o.kind = "raise" THEN o ELSE GtAligned(self, o.fx, _align(self, o.fx))

\* Fx.__gt__
__gt__(self, other) == GtCoerced(self, _to_fx(self, other))

GeAligned(self, other, al) == RetBool(self, IntLe(al.b, al.a))
GeCoerced(self, o) ==
    IF o.kind = "raise" THEN o ELSE GeAligned(self, o.fx, _align(self, o.fx))

\* Fx.__ge__
__ge__(self, other) == GeCoerced(self, _to_fx(self, other))

\* an order of the mantissas as they stand, not aligned
LtUnaligned(self, other, al) == RetBool(self, IntLt(self.value, other.value))

LtAligned(self, other, al) == RetBool(self, IntLt(al.a, al.b))
LtCoerced(self, o) ==
    IF o.kind = "raise" THEN o ELSE LtAligned(self, o.fx, _align(self, o.fx))

\* Fx.__lt__
__lt__(self, other) == LtCoerced(self, _to_fx(self, other))

LeAligned(self, other, al) == RetBool(self, IntLe(al.a, al.b))
LeCoerced(self, o) ==
    IF o.kind = "raise" THEN o ELSE LeAligned(self, o.fx, _align(self, o.fx))

\* Fx.__le__
__le__(self, other) == LeCoerced(self, _to_fx(self, other))

\* Fx.__radd__: self + other
__radd__(self, other) == __add__(self, other)

\* a reflected subtraction that keeps the receiver on the left
SubOfSwapped(self, c) ==
    IF c.kind = "raise" THEN Within(self, c)
    ELSE __sub__(self, PyFx(c.fx))

\* other - self, c being fx(other), the receiver of -
SubOf(self, c) ==
    IF c.kind = "raise" THEN Within(self, c)
    ELSE Within(self, __sub__(c.fx, PyFx(self)))

\* Fx.__rsub__
__rsub__(self, other) == SubOf(self, fx(other))

\* Fx.__rmul__: self * other
__rmul__(self, other) == __mul__(self, other)

\* other % self, c being fx(other), the receiver of %
ModOf(self, c) ==
    IF c.kind = "raise" THEN Within(self, c)
    ELSE Within(self, __mod__(c.fx, PyFx(self)))

\* Fx.__rmod__
__rmod__(self, other) == ModOf(self, fx(other))

\* how the interpreter ends a binary operator whose handler gave NotImplemented
\* and whose other operand has no handler of its own: TypeError
BinaryOp(out) ==
    IF out.kind = "NotImplemented" THEN Raise(out.self, "TypeError") ELSE out

\* an in-place addition that writes the sum into the receiver and returns it
IAddInPlace(self, out) ==
    IF out.kind = "Fx" THEN RetFx(out.fx, out.fx) ELSE out

\* x += other, out being the outcome of self + other: Fx defines no __iadd__, so
\* the statement is x = x + other and the receiver is left as + left it
IAddResult(self, out) == out

IAdd(self, other) == IAddResult(self, BinaryOp(__add__(self, other)))

\* x -= other: x = x - other
ISub(self, other) == BinaryOp(__sub__(self, other))

\* x *= other: x = x * other
IMul(self, other) == BinaryOp(__mul__(self, other))

\* x //= other: x = x // other
IFloorDiv(self, other) == BinaryOp(__floordiv__(self, other))

(***************************************************************************)
(* class Temporary (core/temporary.py): the wrapped object is the private  *)
(* field _Temporary__value; a call gives the field it leaves and what it   *)
(* returns or raises.                                                      *)
(***************************************************************************)
\* what a call on a Temporary yields: a value (val), or an exception
TempValue(o, name, w, v) ==
    [op |-> o, name |-> name, kind |-> "value", val |-> v, exc |-> "", wrapped |-> w]
TempRaise(o, name, w) ==
    [op |-> o, name |-> name, kind |-> "raise", val |-> PyNone, exc |-> "AttributeError",
     wrapped |-> w]

\* Temporary.__init__, and temp(value)
Temporary(value) == value
temp(value) == Temporary(value)

\* getattr(value, name) for the attributes the model asks for: scale of an Fx,
\* real of an int; any other name is missing
GetAttr(o, value, name) ==
    IF value.kind = "Fx" /\ name = "scale" THEN TempValue(o, name, PyNone, PyInt(value.fx.scale))
    ELSE IF value.kind = "int" /\ name = "real" THEN TempValue(o, name, PyNone, value)
    ELSE TempRaise(o, name, PyNone)

\* a __getattribute__ that clears the field for the name "value" alone
GetAttributeKept(o, value, name) ==
    IF value = PyNone THEN TempRaise(o, name, value)
    ELSE IF name = "value" THEN TempValue(o, name, PyNone, value)
    ELSE [GetAttr(o, value, name) EXCEPT !.wrapped = value]

\* Temporary.__getattribute__ as the operation o, value being the field
GetAttribute(o, value, name) ==
    IF value = PyNone THEN TempRaise(o, name, value)
    ELSE IF name = "value" THEN TempValue(o, name, PyNone, value)
    ELSE GetAttr(o, value, name)

\* Temporary.__getattribute__
__getattribute__(value, name) == GetAttribute("getattr", value, name)

\* Temporary.__setattr__
__setattr__(value, name) == TempRaise("setattr", name, value)

\* Temporary.__delattr__
__delattr__(value, name) == TempRaise("delattr", name, value)

\* str() of a value, as f"{...}" formats it
StrOf(v) == IF v.kind = "Fx" THEN __str__(v.fx).text ELSE v.text

\* f"{self.value}"
TempFormat(out) ==
    IF out.kind = "raise" THEN out ELSE [out EXCEPT !.val = PyStr(StrOf(out.val))]

\* Temporary.__str__
Temporary__str__(value) == TempFormat(GetAttribute("str", value, "value"))

(***************************************************************************)
(* memo (utils/decorators.py) around the function power of its test: a     *)
(* value is an int (num) or a tuple (name, num), which is also what an     *)
(* item of kwargs is; a call is its args and the items of its kwargs.      *)
(***************************************************************************)
MInt(k) == [kind |-> "int", name |-> "", num |-> k]
MTuple(name, k) == [kind |-> "tuple", name |-> name, num |-> k]
MCall(args, kwargs) == [args |-> args, kwargs |-> kwargs]

MReturn(v) == [kind |-> "value", val |-> v, exc |-> ""]
MRaise(e) == [kind |-> "raise", val |-> MInt(0), exc |-> e]

\* the names of the parameters of power, in the order in which sorted() puts
\* the items of kwargs
ParamNames == <<"base", "exponent">>

\* base ** exponent: a tuple is no operand of **
PowerBody(base, exponent) ==
    IF base.kind = "int" /\ exponent.kind = "int"
    THEN MReturn(MInt(base.num ^ exponent.num))
    ELSE MRaise("TypeError")

\* the value the call binds to the i-th parameter: the i-th positional
\* argument, or the keyword item of that name
Bind(call, i) ==
    IF i <= Len(call.args) THEN call.args[i]
    ELSE LET it == CHOOSE it \in call.kwargs : it.name = ParamNames[i]
         IN  MInt(it.num)

\* the parameters the call gives no value, and those it gives two
Unbound(call) ==
    {i \in 1..Len(ParamNames) :
        i > Len(call.args) /\ \A it \in call.kwargs : it.name /= ParamNames[i]}
TwiceBound(call) ==
    {i \in 1..Len(ParamNames) :
        i <= Len(call.args) /\ \E it \in call.kwargs : it.name = ParamNames[i]}

\* def power(base, exponent=2): return base ** exponent
power(call) ==
    IF Len(call.args) > Len(ParamNames) \/ TwiceBound(call) /= {} \/ 1 \in Unbound(call)
    THEN MRaise("TypeError")
    ELSE PowerBody(Bind(call, 1), IF 2 \in Unbound(call) THEN MInt(2) ELSE Bind(call, 2))

\* tuple(sorted(kwargs.items())): the items in the order of their names
RECURSIVE SortedItems(_, _)
SortedItems(kwargs, i) ==
    IF i > Len(ParamNames) THEN <<>>
    ELSE (IF \E it \in kwargs : it.name = ParamNames[i]
          THEN <<CHOOSE it \in kwargs : it.name = ParamNames[i]>> ELSE <<>>)
             \o SortedItems(kwargs, i + 1)

\* key = args + tuple(sorted(kwargs.items()))
MemoKey(call) == call.args \o SortedItems(call.kwargs, 1)

\* key in cache, and cache[key]
InCache(c, key) == \E i \in 1..Len(c) : c[i].key = key
CacheGet(c, key) == c[CHOOSE i \in 1..Len(c) : c[i].key = key].result

\* cache[key] = result, then del cache[next(iter(cache))] when clean is set and
\* the cache holds more than max_cache entries
CacheStore(c, cfg, key, result) ==
    IF cfg.clean /\ Len(c) + 1 > cfg.max_cache
    THEN Tail(Append(c, [key |-> key, result |-> result]))
    ELSE Append(c, [key |-> key, result |-> result])

\* memo(clean, max_cache): the settings the wrapper runs with; memo applied to
\* the function itself is memo(clean=True, max_cache=10)
memo(clean, max_cache) ==
    IF clean = "callable" THEN [clean |-> TRUE, max_cache |-> 10]
    ELSE [clean |-> clean = "True", max_cache |-> max_cache]

\* what a call of the wrapper yields: the cache it leaves, the outcome, and
\* whether the key was cached and whether func was invoked
MemoOut(c, call, out, cached, invoked) ==
    [cache |-> c, call |-> call, out |-> out, cached |-> cached, invoked |-> invoked]

\* the wrapper once func has returned or raised: an exception leaves the cache
WrapperStore(c, cfg, call, out) ==
    IF out.kind = "raise" THEN MemoOut(c, call, out, FALSE, TRUE)
    ELSE MemoOut(CacheStore(c, cfg, MemoKey(call), out.val), call, out, FALSE, TRUE)

\* wrapper(*args, **kwargs) of memo
wrapper(c, cfg, call) ==
    IF InCache(c, MemoKey(call))
    THEN MemoOut(c, call, MReturn(CacheGet(c, MemoKey(call))), TRUE, FALSE)
    ELSE WrapperStore(c, cfg, call, power(call))

(***************************************************************************)
(* Units (units/utils.py, units/time.py, units/weight.py).  A unit object  *)
(* is its class, its raw_value and its attributes; an attribute that is    *)
(* None, or was never set, is PyNone.  An int is an unbounded integer; a   *)
(* float is carried as its str() text, which is what Fx reads of it.       *)
(***************************************************************************)
PyIntOf(a) == [kind |-> "int", fx |-> FxNone, text |-> IntStr(a)]

MkUnit(cls, raw, value) ==
    [cls |-> cls, raw_value |-> raw, value |-> value,
     minutes |-> PyNone, seconds |-> PyNone, milliseconds |-> PyNone,
     grams |-> PyNone, milligrams |-> PyNone, micrograms |-> PyNone]

\* a plain number as an operand of a unit
Plain(v) == MkUnit(v.kind, v, IntZero)

NoUnit == MkUnit("", PyNone, IntZero)

\* what a constructor or an operator of a unit yields
UnitOk(u) == [op |-> "", kind |-> "unit", unit |-> u, exc |-> ""]
UnitRaise(e) == [op |-> "", kind |-> "raise", unit |-> NoUnit, exc |-> e]
NoUnitResult == [op |-> "", kind |-> "none", unit |-> NoUnit, exc |-> ""]

\* the significant decimal digits a float holds exactly
FloatDigits == 15

\* Fx.__int__: int(float(self)), the value truncated toward zero (the float
\* is exact for the whole values of the model, which are below 2^53)
__int__(self) ==
    MkInt(self.value.neg, MagDivMod(self.value.mag, IntPow10(self.scale).mag).q)

\* int(v) of an attribute, which holds an int or an Fx
FieldInt(v) == IF v.kind = "Fx" THEN __int__(v.fx) ELSE IntParse(v.text).val

\* int(v) of an int, an Fx or a float
ToInt(v) == IF v.kind = "float" THEN __int__(fx(v).fx) ELSE FieldInt(v)

\* current_val *= Fx(factor)
TimesFactor(cur, factor) == __mul__(cur, PyFx(fx(PyInt(factor)).fx)).fx

\* the inner loop of downgrade_float_fx: the remaining factors multiplied in
RECURSIVE DowngradeRest(_, _, _)
DowngradeRest(cur, chain, i) ==
    IF i > Len(chain) THEN cur
    ELSE DowngradeRest(TimesFactor(cur, chain[i]), chain, i + 1)

\* what downgrade_float_fx returns: the whole value and the leftover, which is
\* None or the value stored under the last unit name of the chain
Downgraded(w, l) == [kind |-> "ok", whole |-> w, leftover |-> l, exc |-> ""]

\* the loop of downgrade_float_fx from the i-th factor on, cur being
\* current_val multiplied by it already
RECURSIVE DowngradeLoop(_, _, _)
DowngradeLoop(cur, chain, i) ==
    IF is_whole(PyFx(cur)).flag
    THEN Downgraded(__int__(DowngradeRest(cur, chain, i + 1)), PyNone)
    ELSE IF i = Len(chain) THEN Downgraded(__int__(cur), PyFx(cur))
    ELSE DowngradeLoop(TimesFactor(cur, chain[i + 1]), chain, i + 1)

\* downgrade_float_fx once current_val = Fx(value) is built
DowngradeFrom(o, chain) ==
    IF o.kind = "raise"
    THEN [kind |-> "raise", whole |-> IntZero, leftover |-> PyNone, exc |-> o.exc]
    ELSE DowngradeLoop(TimesFactor(o.fx, chain[1]), chain, 1)

\* downgrade_float_fx
downgrade_float_fx(value, chain) == DowngradeFrom(__init__(value), chain)

TimeClasses == {"Hour", "Minute", "Second", "Millisecond"}

\* chain and CONVERSION_FACTOR of the float branch of a class
ChainOf(cls) ==
    IF cls = "Hour" THEN <<60, 60, 1000>>
    ELSE IF cls = "Minute" THEN <<60, 1000>>
    ELSE <<1000>>
ConversionFactor(cls) ==
    IF cls = "Hour" THEN IntOf(3600000)
    ELSE IF cls = "Minute" THEN IntOf(60000)
    ELSE IntOf(1000)

\* Second alone keeps whole % CONVERSION_FACTOR, in .milliseconds
KeepRemainder(u, rem) ==
    IF u.cls = "Second" /\ rem /= IntZero
    THEN [u EXCEPT !.milliseconds = PyIntOf(rem)] ELSE u

\* setattr(self, unit_name, val_fx): the last name of every chain is
\* "milliseconds"
KeepLeftover(u, l) == IF l = PyNone THEN u ELSE [u EXCEPT !.milliseconds = l]

\* the float branch of Hour, Minute and Second._process_value
TimeFromFloat(cls, raw, d) ==
    IF d.kind = "raise" THEN UnitRaise(d.exc)
    ELSE UnitOk(KeepLeftover(
             KeepRemainder(MkUnit(cls, raw, IntFloorDiv(d.whole, ConversionFactor(cls))),
                           IntMod(d.whole, ConversionFactor(cls))),
             d.leftover))

\* Millisecond of a float: self.raw_value = int(self.raw_value)
Truncated(cls, k) == MkUnit(cls, PyIntOf(k), k)

\* Hour, Minute, Second and Millisecond._process_value for an int or a float
\* raw_value, and for a value that is neither
Time_process_value(cls, raw) ==
    IF raw.kind = "int" THEN UnitOk(MkUnit(cls, raw, ToInt(raw)))
    ELSE IF raw.kind /= "float" THEN UnitRaise("TypeError")
    ELSE IF cls = "Millisecond" THEN UnitOk(Truncated(cls, ToInt(raw)))
    ELSE TimeFromFloat(cls, raw, downgrade_float_fx(raw, ChainOf(cls)))

\* second(value)
second(value) == Time_process_value("Second", value)

\* int(attribute) * factor when the attribute is not None
Part(v, factor) == IF v = PyNone THEN IntZero ELSE IntMul(FieldInt(v), IntOf(factor))

\* __millisecond__ of Hour, Minute, Second and Millisecond: the attributes a
\* class does not have are None
__millisecond__(u) ==
    IF u.cls = "Millisecond" THEN u.value
    ELSE IntAdd(IntAdd(IntAdd(IntMul(u.value, ConversionFactor(u.cls)),
                              Part(u.minutes, 60000)),
                       Part(u.seconds, 1000)),
                Part(u.milliseconds, 1))

\* the digits of a magnitude without its trailing zeros
RECURSIVE Significant(_)
Significant(m) ==
    IF Len(m) > 1 /\ m[Len(m)] = 0 THEN Significant(SubSeq(m, 1, Len(m) - 1)) ELSE m

\* total_ms / 1000 is the float nearest to the quotient.  Below 10^FloatDigits
\* milliseconds the quotient, its str() and the int() of its multiples are
\* exact; a quotient of 10^16 or more with FloatDigits digits at most is
\* exact too, and its str() is in exponent notation
FloatExact(total_ms) ==
    \/ Len(total_ms.mag) <= FloatDigits
    \/ Len(total_ms.mag) > FloatDigits + 4
           /\ Len(Significant(total_ms.mag)) <= FloatDigits

\* str() of a float of 1e16 or more: d.ddde+XX
FloatSci(neg, m) ==
    (IF neg THEN <<"-">> ELSE <<>>)
        \o IntStr(MkInt(FALSE, <<m[1]>>))
        \o (IF Len(Significant(m)) > 1
            THEN <<".">> \o IntStr(MkInt(FALSE, Tail(Significant(m)))) ELSE <<>>)
        \o <<"e", "+">> \o IntStr(IntOf(Len(m) - 1))

\* str() of the float q, an exact decimal: 1e+16 from 10^16 on, and a
\* trailing .0 on a whole value below
FloatStr(q) ==
    IF q.scale = 0 /\ Len(q.value.mag) > 16 THEN FloatSci(q.value.neg, q.value.mag)
    ELSE IF q.scale = 0 THEN IntStr(q.value) \o <<".", "0">>
    ELSE __str__(q).text

\* second(total_ms / 1000)
SecondOf(total_ms) == second(PyFloat(FloatStr(_normalize(MkFx(total_ms, 3)))))

\* the milliseconds of the other operand of + and -: a TimeUnit, or an int
\* taken as seconds, int(float(other) * 1000)
OtherMs(other) ==
    IF other.cls \in TimeClasses THEN __millisecond__(other)
    ELSE IntMul(ToInt(other.raw_value), IntOf(1000))

\* what follows NotImplemented: the reflected operator of a weight unit raises
\* DimensionError, any other operand ends in the TypeError of the interpreter
Reflected(other) ==
    IF other.cls \in {"Kilogram", "Gram"} THEN UnitRaise("DimensionError")
    ELSE UnitRaise("TypeError")

\* TimeUnit.__add__
TimeAdd(self, other) ==
    IF other.cls \in TimeClasses \cup {"int"}
    THEN SecondOf(IntAdd(__millisecond__(self), OtherMs(other)))
    ELSE Reflected(other)

\* TimeUnit.__sub__
TimeSub(self, other) ==
    IF other.cls \in TimeClasses \cup {"int"}
    THEN SecondOf(IntSub(__millisecond__(self), OtherMs(other)))
    ELSE Reflected(other)

WeightClasses == {"Kilogram", "Gram"}

\* round(float(val)) for a val that is no tie
Nearest(f) ==
    IntFloorDiv(IntAdd(IntMul(IntOf(2), f.value), IntPow10(f.scale)),
                IntMul(IntOf(2), IntPow10(f.scale)))

\* abs(val_float - nearest) < 1e-9
IsNear(f, k) ==
    IntLt(IntMul(IntAbs(IntSub(f.value, IntMul(k, IntPow10(f.scale)))), IntPow10(9)),
          IntPow10(f.scale))

\* int(snap(val)) for an Fx
SnapInt(f) == IF IsNear(f, Nearest(f)) THEN Nearest(f) ELSE __int__(f)

\* rem * 1000
Times1000(f) == __mul__(f, PyInt(1000)).fx

\* if rem_mcg > 0: self.micrograms = rem_mcg
CascadeMicro(u, rem_mcg) ==
    IF __gt__(rem_mcg, PyInt(0)).flag THEN [u EXCEPT !.micrograms = PyFx(rem_mcg)] ELSE u

\* the attributes the float branch cascades through before the micrograms
CascadeNames(cls) ==
    IF cls = "Kilogram" THEN <<"grams", "milligrams">> ELSE <<"milligrams">>

\* the cascade of the float branch of Kilogram and Gram from the i-th name on:
\* rem_int = int(snap(rem)); if rem_int >= 1: self.<name> = rem_int and
\* rem -= rem_int; the next rem is rem * 1000
RECURSIVE Cascade(_, _, _, _)
RECURSIVE CascadeStep(_, _, _, _, _)
Cascade(u, rem, names, i) ==
    IF i > Len(names) THEN CascadeMicro(u, rem)
    ELSE CascadeStep(u, rem, SnapInt(rem), names, i)
CascadeStep(u, rem, rem_int, names, i) ==
    IF IntLe(IntOne, rem_int)
    THEN Cascade([u EXCEPT ![names[i]] = PyIntOf(rem_int)],
                 Times1000(__sub__(rem, PyIntOf(rem_int)).fx), names, i + 1)
    ELSE Cascade(u, Times1000(rem), names, i + 1)

\* remainder = fx(raw) - self.value, times 1000
FirstRemainder(f) == Times1000(__sub__(f, PyIntOf(__int__(f))).fx)

\* the float and Fx branch of Kilogram and Gram._process_value, f being fx(raw)
WeightFromFx(cls, raw, f) ==
    Cascade(MkUnit(cls, raw, __int__(f)), FirstRemainder(f), CascadeNames(cls), 1)

\* Kilogram and Gram._process_value for an int, a float or an Fx raw_value, and
\* for a value that is none of them
Weight_process_value(cls, raw) ==
    IF raw.kind = "int" THEN UnitOk(MkUnit(cls, raw, ToInt(raw)))
    ELSE IF raw.kind \in {"float", "Fx"} THEN UnitOk(WeightFromFx(cls, raw, fx(raw).fx))
    ELSE UnitRaise("TypeError")

\* total += fx(attribute) / factor when the attribute is set
AddPart(total, v, factor) ==
    IF v = PyNone THEN total
    ELSE __add__(total, PyFx(__truediv__(fx(v).fx, PyInt(factor)).fx)).fx

\* the attributes below the value of a class, with the number of them in one
\* unit of the class
PartsOf(cls) ==
    IF cls = "Kilogram"
    THEN <<<<"grams", 1000>>, <<"milligrams", 1000000>>, <<"micrograms", 1000000000>>>>
    ELSE <<<<"milligrams", 1000>>, <<"micrograms", 1000000>>>>

RECURSIVE AddParts(_, _, _, _)
AddParts(total, u, parts, i) ==
    IF i > Len(parts) THEN total
    ELSE AddParts(AddPart(total, u[parts[i][1]], parts[i][2]), u, parts, i + 1)

\* Gram.__gram__, and the total of Kilogram.__kilogram__: fx(self.value) plus
\* the attributes that are set
OwnTotal(u) == AddParts(fx(PyIntOf(u.value)).fx, u, PartsOf(u.cls), 1)

\* Gram.__kilogram__ is self.__gram__() / 1000
InKilograms(cls, total) ==
    IF cls = "Gram" THEN __truediv__(total, PyInt(1000)).fx ELSE total

\* Kilogram.__kilogram__ and Gram.__kilogram__
__kilogram__(u) == InKilograms(u.cls, OwnTotal(u))

\* kg(value) for an Fx
kg(value) == Weight_process_value("Kilogram", value)

\* WeightUnit.__add__ of a metric unit
WeightAdd(self, other) ==
    IF other.cls \notin WeightClasses THEN UnitRaise("DimensionError")
    ELSE kg(PyFx(__add__(__kilogram__(self), PyFx(__kilogram__(other))).fx))

\* WeightUnit.__sub__ of a metric unit
WeightSub(self, other) ==
    IF other.cls \notin WeightClasses THEN UnitRaise("DimensionError")
    ELSE kg(PyFx(__sub__(__kilogram__(self), PyFx(__kilogram__(other))).fx))

(***************************************************************************)
(* The program: a session holding a receiver x (an Fx), a second operand y *)
(* (any Python value), and the outcome r of the last operation op.  An     *)
(* operation runs on fresh operands (pc = "ready") and leaves pc = "done"; *)
(* n counts the results taken as operands of a later operation, and lit is *)
(* the argument of the last call of the constructor, or the object an      *)
(* update has bound x to since.                                            *)
(***************************************************************************)
VARIABLES x, y, r, op, pc, n, lit

\* A Temporary: its field _Temporary__value (wrapped) and the calls made on it
\* so far with their outcomes (tlog).
VARIABLES wrapped, tlog

\* A function wrapped by memo: the settings of the decorator (mcfg), the cache
\* of the wrapper in the order of insertion, the number of calls made and the
\* last call with its outcome (mout).
VARIABLES mcfg, cache, calls, mout

\* Units: the unit ua, the second operand ub of its operators and the outcome
\* of the last constructor or operator (uout).
VARIABLES ua, ub, uout

fxvars == <<x, y, r, op, pc, n, lit>>
tempvars == <<wrapped, tlog>>
memovars == <<mcfg, cache, calls, mout>>
unitvars == <<ua, ub, uout>>
vars == <<fxvars, tempvars, memovars, unitvars>>

\* the components a session of Fx operations does not touch
NoTemporary == wrapped = PyNone /\ tlog = <<>>
NoSession ==
    /\ x = FxNone /\ y = PyNone /\ r = NoResult /\ lit = PyNone
    /\ op = "" /\ pc = "" /\ n = 0
NoCall == MemoOut(<<>>, MCall(<<>>, {}), MReturn(MInt(0)), FALSE, FALSE)
NoMemo == mcfg = memo("callable", 0) /\ cache = <<>> /\ calls = 0 /\ mout = NoCall
NoUnits == ua = NoUnit /\ ub = NoUnit /\ uout = NoUnitResult
Others == <<tempvars, memovars, unitvars>>

\* plain int operands range over -MaxInt..MaxInt
MaxInt == 5
\* results fed back as operands, at most
MaxChain == 1
\* the exponents the integer branch of ** is run for, at most
MaxExp == 10

IntLits == {PyInt(i) : i \in -MaxInt..MaxInt}

StrLits == {PyStr(t) : t \in {
    <<"0", ".", "0", "0">>,
    <<"2", ".", "0">>,
    <<"4", ".", "0">>,
    <<"1", ".", "5">>,
    <<"-", "0", ".", "5">>,
    <<"3", ".", "1", "4", "0">>,
    <<"1", "0", ".", "5">>,
    <<"3", ".", "2">>,
    <<"1", "7", ".", "8">>,
    <<"1", ".", "4", "3", "2">>,
    <<"5", ".", "1", "2", "3", "4">>,
    <<"7", ".", "2">>,
    <<"4", "1", ".", "5", "1", "2">>,
    <<"3", ".", "6">>,
    <<"1", ".", "2">>,
    <<"1", "0">>,
    <<"-", "2", ".", "5">>,
    <<"0", ".", "0", "5">>,
    <<"2", ".", "4", "5">>,
    <<"-", "0", ".", "0", "5", "0">>,
    <<"-", "0", ".", "0">>,
    <<"0", ".", "1", "2", "3", "4", "5", "6", "7", "8", "9", "0", "1", "2", "3">>}}

FloatLits == {PyFloat(t) : t \in {<<"0", ".", "0">>, <<"2", ".", "5">>, <<"3", ".", "0">>}}

\* str() of the floats the fallback branch of ** is let to produce
FloatPowTexts == {<<"0", ".", "5">>, <<"4", ".", "0">>, <<"1", "e", "-", "0", "5">>}

\* text operands
StrOperands == {PyStr(t) : t \in {<<"0", ".", "0", "0">>, <<"2", ".", "5">>}}

\* the literals of a set the constructor accepts, and the Fx values it builds
\* from them
Accepted(lits) == {w \in lits : __init__(w).kind = "Fx"}
Built(lits) == {__init__(v).fx : v \in Accepted(lits)}

Seeds == Built(IntLits \cup StrLits)

Operands ==
    {PyFx(f) : f \in Seeds} \cup IntLits \cup FloatLits \cup StrOperands
        \cup {PyNone, PyList}

\* the literals a session constructs an Fx from
NewLits ==
    {PyInt(0), PyInt(7), PyInt(-3), PyFloat(<<"2", ".", "5">>),
     PyFloat(<<"1", "e", "-", "0", "5">>)}
        \cup {PyStr(t) : t \in {
            <<"-", "0", ".", "5", "0">>,
            <<"-", "0", ".", "5">>,
            <<".", "5">>,
            <<"5", ".">>,
            <<"+", "2", ".", "5", "0">>,
            <<"1", ".", "2", ".", "3">>,
            <<" ", "4", "2">>,
            <<"0", "_", "7">>,
            <<"1", ".", "5", " ">>,
            <<"0", "_", "2", ".", "5">>,
            <<"1", "2", "a">>,
            <<"1", ".", "-", "5">>,
            <<"a", "b", "c">>}}

\* the literals and operands of a session that feeds results back
SessionLits == {PyInt(0), PyInt(-3)} \cup {PyStr(t) : t \in {
    <<"1", ".", "5">>,
    <<"-", "0", ".", "5", "0">>,
    <<"0", ".", "0", "5">>,
    <<"2", ".", "0">>}}

SessionSeeds == Built(SessionLits)

SessionOperands ==
    {PyFx(f) : f \in Built({PyInt(0), PyInt(2), PyStr(<<"-", "0", ".", "4">>)})}
        \cup {PyInt(3), PyNone}

\* x = Fx(lit), and a second operand
Init ==
    /\ lit \in Accepted(SessionLits)
    /\ x = __init__(lit).fx
    /\ y \in SessionOperands
    /\ r = NoResult
    /\ op = ""
    /\ pc = "ready"
    /\ n = 0
    /\ NoTemporary
    /\ NoMemo
    /\ NoUnits

InitOps ==
    /\ lit \in Accepted(IntLits \cup StrLits)
    /\ x = __init__(lit).fx
    /\ y \in Operands
    /\ r = NoResult
    /\ op = ""
    /\ pc = "ready"
    /\ n = MaxChain
    /\ NoTemporary
    /\ NoMemo
    /\ NoUnits

\* an operation of the receiver ends: its outcome is kept, and the receiver
\* holds the fields the call left it with
Done(name, out) ==
    /\ pc' = "done"
    /\ r' = out
    /\ op' = name
    /\ x' = out.self
    /\ UNCHANGED <<y, n, lit, Others>>

\* a compound update of the name x ends: the name is bound to the result, lit
\* follows it, and r.self holds the fields of the object x named before
Updated(name, out) ==
    /\ pc' = "done"
    /\ r' = out
    /\ op' = name
    /\ x' = IF out.kind = "Fx" THEN out.fx ELSE out.self
    /\ lit' = IF out.kind = "Fx" THEN PyFx(out.fx) ELSE lit
    /\ UNCHANGED <<y, n, Others>>

\* x = Fx(v) for a literal v: x is bound to the new object unless the
\* constructor raises
Bound(v, out) ==
    /\ pc' = "done"
    /\ r' = out
    /\ op' = "init"
    /\ x' = IF out.kind = "Fx" THEN out.fx ELSE x
    /\ lit' = v
    /\ UNCHANGED <<y, n, Others>>

New ==
    /\ pc = "ready"
    /\ \E v \in NewLits : Bound(v, __init__(v))

CopyOp == pc = "ready" /\ Done("copy", copy(x))
NegOp == pc = "ready" /\ Done("neg", __neg__(x))
PosOp == pc = "ready" /\ Done("pos", __pos__(x))
AbsOp == pc = "ready" /\ Done("abs", __abs__(x))
EqOp == pc = "ready" /\ Done("eq", __eq__(x, y))
NeOp == pc = "ready" /\ Done("ne", __ne__(x, y))
AddOp == pc = "ready" /\ Done("add", BinaryOp(__add__(x, y)))
SubOp == pc = "ready" /\ Done("sub", BinaryOp(__sub__(x, y)))
MulOp == pc = "ready" /\ Done("mul", BinaryOp(__mul__(x, y)))
TrueDivOp == pc = "ready" /\ Done("truediv", BinaryOp(__truediv__(x, y)))
FloorDivOp == pc = "ready" /\ Done("floordiv", BinaryOp(__floordiv__(x, y)))
ModOp == pc = "ready" /\ Done("mod", BinaryOp(__mod__(x, y)))
IsZeroOp == pc = "ready" /\ Done("is_zero", is_zero(x))
IsIntegerOp == pc = "ready" /\ Done("is_integer", is_integer(x))
\* is_whole(x), or is_whole(y) for a y that is no float
IsWholeOp ==
    /\ pc = "ready"
    /\ \/ Done("is_whole", Within(x, is_whole(PyFx(x))))
       \/ y.kind /= "float" /\ Done("is_whole_y", Within(x, is_whole(y)))
BoolOp == pc = "ready" /\ Done("bool", bool(x))
HashOp == pc = "ready" /\ Done("hash", __hash__(x))
StrOp == pc = "ready" /\ Done("str", __str__(x))
GtOp == pc = "ready" /\ Done("gt", BinaryOp(__gt__(x, y)))
GeOp == pc = "ready" /\ Done("ge", BinaryOp(__ge__(x, y)))
LtOp == pc = "ready" /\ Done("lt", BinaryOp(__lt__(x, y)))
LeOp == pc = "ready" /\ Done("le", BinaryOp(__le__(x, y)))

\* the integer branch of ** is run for exponents up to MaxExp
ExpInt(o) ==
    (o.kind = "Fx" /\ o.fx.scale = 0) => IntLe(o.fx.value, IntOf(MaxExp))

\* the texts of the float the fallback branch may produce for the exponent o;
\* the integer branch produces no float
FloatTexts(o) ==
    IF o.kind = "Fx" /\ o.fx.scale = 0 /\ IntLe(IntZero, o.fx.value) THEN {<<>>}
    ELSE FloatPowTexts

PowOp ==
    /\ pc = "ready"
    /\ ExpInt(PowOperand(x, y))
    /\ \E fl \in FloatTexts(PowOperand(x, y)) : Done("pow", BinaryOp(__pow__(x, y, fl)))

IAddOp == pc = "ready" /\ Updated("iadd", IAdd(x, y))
ISubOp == pc = "ready" /\ Updated("isub", ISub(x, y))
IMulOp == pc = "ready" /\ Updated("imul", IMul(x, y))
IFloorDivOp == pc = "ready" /\ Updated("ifloordiv", IFloorDiv(x, y))

\* y op x for a plain number y: the int or float gives NotImplemented and the
\* interpreter calls the reflected handler of x
RAddOp ==
    /\ pc = "ready"
    /\ y.kind \in {"int", "float"}
    /\ Done("radd", BinaryOp(__radd__(x, y)))

RSubOp ==
    /\ pc = "ready"
    /\ y.kind \in {"int", "float"}
    /\ Done("rsub", BinaryOp(__rsub__(x, y)))

RMulOp ==
    /\ pc = "ready"
    /\ y.kind \in {"int", "float"}
    /\ Done("rmul", BinaryOp(__rmul__(x, y)))

RModOp ==
    /\ pc = "ready"
    /\ y.kind \in {"int", "float"}
    /\ Done("rmod", BinaryOp(__rmod__(x, y)))

RTrueDivOp ==
    /\ pc = "ready"
    /\ y.kind \in {"int", "float"}
    /\ Done("rtruediv", BinaryOp(__rtruediv__(x, y)))

RFloorDivOp ==
    /\ pc = "ready"
    /\ y.kind \in {"int", "float"}
    /\ Done("rfloordiv", BinaryOp(__rfloordiv__(x, y)))

RPowOp ==
    /\ pc = "ready"
    /\ y.kind \in {"int", "float"}
    /\ ExpInt(PowOperand(x, PyFx(x)))
    /\ \E fl \in FloatTexts(PowOperand(x, PyFx(x))) :
           Done("rpow", BinaryOp(__rpow__(x, y, fl)))

\* x = Fx(r): the result becomes the receiver
FromResult ==
    /\ n < MaxChain
    /\ pc = "done"
    /\ r.kind = "Fx"
    /\ pc' = "ready"
    /\ x' = __init__(PyFx(r.fx)).fx
    /\ r' = RetNew(x')
    /\ op' = "init"
    /\ lit' = PyFx(r.fx)
    /\ n' = n + 1
    /\ UNCHANGED <<y, Others>>

\* y = r.copy(): a copy of the result becomes the second operand
CopyResult ==
    /\ n < MaxChain
    /\ pc = "done"
    /\ r.kind = "Fx"
    /\ pc' = "ready"
    /\ r' = copy(r.fx)
    /\ y' = PyFx(r'.fx)
    /\ op' = "copy"
    /\ n' = n + 1
    /\ UNCHANGED <<x, lit, Others>>

Ops ==
    \/ New
    \/ CopyOp
    \/ NegOp
    \/ PosOp
    \/ AbsOp
    \/ EqOp
    \/ NeOp
    \/ AddOp
    \/ SubOp
    \/ MulOp
    \/ TrueDivOp
    \/ FloorDivOp
    \/ ModOp
    \/ PowOp
    \/ IsZeroOp
    \/ IsIntegerOp
    \/ IsWholeOp
    \/ BoolOp
    \/ HashOp
    \/ StrOp
    \/ GtOp
    \/ GeOp
    \/ LtOp
    \/ LeOp
    \/ IAddOp
    \/ ISubOp
    \/ IMulOp
    \/ IFloorDivOp
    \/ RAddOp
    \/ RSubOp
    \/ RMulOp
    \/ RModOp
    \/ RTrueDivOp
    \/ RFloorDivOp
    \/ RPowOp

Next ==
    \/ Ops
    \/ FromResult
    \/ CopyResult

\* sessions: operations on a few literals, results fed back as operands
Spec == Init /\ [][Next]_vars

\* single operations on every pair of a wider set of operands
SpecOps == InitOps /\ [][Ops]_vars

(***************************************************************************)
(* A Temporary and the calls made on it                                    *)
(***************************************************************************)
\* calls made on one Temporary, at most
MaxAccess == 3

\* the values wrapped
TempValues ==
    {PyInt(i) : i \in -1..1} \cup {PyFx(f) : f \in SessionSeeds}
        \cup {PyStr(<<"a">>), PyNone}

AttrNames == {"value", "scale", "real", "missing"}

\* t = temp(v)
InitTemp ==
    /\ wrapped \in {temp(v) : v \in TempValues}
    /\ tlog = <<>>
    /\ NoSession
    /\ NoMemo
    /\ NoUnits

\* a call on t ends: the field is what the call left, the outcome is logged
TempDone(out) ==
    /\ wrapped' = out.wrapped
    /\ tlog' = Append(tlog, out)
    /\ UNCHANGED <<fxvars, memovars, unitvars>>

\* t.name
GetOp ==
    /\ Len(tlog) < MaxAccess
    /\ \E name \in AttrNames : TempDone(__getattribute__(wrapped, name))

\* t.name = ...
SetOp ==
    /\ Len(tlog) < MaxAccess
    /\ \E name \in AttrNames : TempDone(__setattr__(wrapped, name))

\* del t.name
DelOp ==
    /\ Len(tlog) < MaxAccess
    /\ \E name \in AttrNames : TempDone(__delattr__(wrapped, name))

\* str(t)
TempStrOp ==
    /\ Len(tlog) < MaxAccess
    /\ TempDone(Temporary__str__(wrapped))

NextTemp ==
    \/ GetOp
    \/ SetOp
    \/ DelOp
    \/ TempStrOp

SpecTemp == InitTemp /\ [][NextTemp]_vars

(***************************************************************************)
(* A function wrapped by memo and the calls made of it                     *)
(***************************************************************************)
\* calls of the wrapped function, at most
MaxCalls == 3
\* max_cache settings run from 0 to this
MaxCache == 2

\* the calls made: power(2), power(3), power(2, 3), power(2, exponent=3),
\* power(2, ('exponent', 3)), power(3, exponent=2), power(2, 3, exponent=3) and
\* power(exponent=3)
MemoCalls ==
    {MCall(<<MInt(2)>>, {}),
     MCall(<<MInt(3)>>, {}),
     MCall(<<MInt(2), MInt(3)>>, {}),
     MCall(<<MInt(2)>>, {MTuple("exponent", 3)}),
     MCall(<<MInt(2), MTuple("exponent", 3)>>, {}),
     MCall(<<MInt(3)>>, {MTuple("exponent", 2)}),
     MCall(<<MInt(2), MInt(3)>>, {MTuple("exponent", 3)}),
     MCall(<<>>, {MTuple("exponent", 3)})}

\* @memo, @memo(clean=True, max_cache=m) and @memo(clean=False, max_cache=m)
InitMemo ==
    /\ mcfg \in {memo(c, m) : c \in {"True", "False"}, m \in 0..MaxCache}
                   \cup {memo("callable", 5)}
    /\ cache = <<>>
    /\ calls = 0
    /\ mout = NoCall
    /\ NoSession
    /\ NoTemporary
    /\ NoUnits

\* a call of the wrapped function
CallOp ==
    /\ calls < MaxCalls
    /\ \E call \in MemoCalls :
           /\ mout' = wrapper(cache, mcfg, call)
           /\ cache' = mout'.cache
    /\ calls' = calls + 1
    /\ UNCHANGED <<mcfg, fxvars, tempvars, unitvars>>

NextMemo == CallOp

SpecMemo == InitMemo /\ [][NextMemo]_vars

(***************************************************************************)
(* Units: a unit ua is built, and an operator is applied to it and to a    *)
(* second operand ub                                                       *)
(***************************************************************************)
\* the magnitudes units are built from: ints, the last of them 10^16, and
\* floats
UnitInts ==
    {PyIntOf(IntOf(i)) : i \in {-1, 0, 1, 2, 5, 15, 30, 200, 300, 500, 1500}}
        \cup {PyIntOf(IntPow10(16))}
\* the weights stay below 2^53, where float(val) is val
WeightInts == {v \in UnitInts : Len(v.text) <= FloatDigits}
UnitFloats == {PyFloat(t) : t \in {
    <<"0", ".", "5">>,
    <<"1", ".", "5">>,
    <<"2", ".", "2", "5">>,
    <<"1", ".", "0">>,
    <<"-", "1", ".", "5">>,
    <<"1", ".", "0", "0", "0", "5">>}}

\* the units that are second operands, built from ints, and plain numbers
UnitOperands ==
    {Time_process_value(c, PyIntOf(IntOf(i))).unit :
        c \in TimeClasses, i \in {0, 1, 2, 30, 300}}
      \cup {Weight_process_value(c, PyIntOf(IntOf(i))).unit :
               c \in WeightClasses, i \in {0, 2, 500, 1500}}
      \cup {Plain(PyIntOf(IntOf(15))), Plain(PyNone)}

InitUnits ==
    /\ ua = NoUnit
    /\ ub \in UnitOperands
    /\ uout = NoUnitResult
    /\ NoSession
    /\ NoTemporary
    /\ NoMemo

\* a constructor or an operator ends
UnitDone(name, out) ==
    /\ uout' = [out EXCEPT !.op = name]
    /\ UNCHANGED <<ub, fxvars, tempvars, memovars>>

\* a constructor ends: ua is the new object unless the constructor raised
UnitBuilt(out) ==
    /\ ua' = IF out.kind = "unit" THEN out.unit ELSE ua
    /\ UnitDone("new", out)

\* ua = Hour(v), Minute(v), Second(v) or Millisecond(v)
TimeNewOp ==
    /\ ua = NoUnit
    /\ \E c \in TimeClasses, v \in UnitInts \cup UnitFloats :
           UnitBuilt(Time_process_value(c, v))

\* ua = kg(v) or gram(v)
WeightNewOp ==
    /\ ua = NoUnit
    /\ \E c \in WeightClasses, v \in WeightInts \cup UnitFloats :
           UnitBuilt(Weight_process_value(c, v))

\* ua + ub for a time unit ua
TimeAddOp ==
    /\ ua.cls \in TimeClasses
    /\ ub.cls \in TimeClasses \cup {"int"}
           => FloatExact(IntAdd(__millisecond__(ua), OtherMs(ub)))
    /\ UnitDone("add", TimeAdd(ua, ub))
    /\ UNCHANGED ua

\* ua - ub for a time unit ua
TimeSubOp ==
    /\ ua.cls \in TimeClasses
    /\ ub.cls \in TimeClasses \cup {"int"}
           => FloatExact(IntSub(__millisecond__(ua), OtherMs(ub)))
    /\ UnitDone("sub", TimeSub(ua, ub))
    /\ UNCHANGED ua

\* ua + ub for a weight unit ua
WeightAddOp ==
    /\ ua.cls \in WeightClasses
    /\ UnitDone("add", WeightAdd(ua, ub))
    /\ UNCHANGED ua

\* ua - ub for a weight unit ua
WeightSubOp ==
    /\ ua.cls \in WeightClasses
    /\ UnitDone("sub", WeightSub(ua, ub))
    /\ UNCHANGED ua

NextUnits ==
    \/ TimeNewOp
    \/ WeightNewOp
    \/ TimeAddOp
    \/ TimeSubOp
    \/ WeightAddOp
    \/ WeightSubOp

SpecUnits == InitUnits /\ [][NextUnits]_vars

(***************************************************************************)
(* Properties                                                              *)
(***************************************************************************)
\* scale >= 0 and (scale == 0 or mantissa % 10 != 0); a zero is (0, 0)
Normalized(f) ==
    /\ f.scale >= 0
    /\ f.scale = 0 \/ IntMod(f.value, IntTen) /= IntZero
    /\ f.value = IntZero => f.scale = 0

\* f and g denote the same number: f.value * 10^g.scale = g.value * 10^f.scale
SameNumber(f, g) ==
    IntMul(f.value, IntPow10(g.scale)) = IntMul(g.value, IntPow10(f.scale))

Max(i, j) == IF i > j THEN i ELSE j

\* the mantissa of f at the scale s >= f.scale
Scaled(f, s) == IntMul(f.value, IntPow10(s - f.scale))

\* q is the floor of a / b: the remainder a - q * b lies between 0 and b
IsFloorQuotient(q, a, b) ==
    LET rem == IntSub(a, IntMul(q, b))
    IN  IF b.neg THEN IntLt(b, rem) /\ IntLe(rem, IntZero)
        ELSE IntLe(IntZero, rem) /\ IntLt(rem, b)

\* the operand v as the Fx the coercion of the code makes of it
Coerce(v) == IF v.kind = "Fx" THEN v.fx ELSE fx(v).fx

\* C1: every Fx value a session of public operations produces or holds (the
\* receiver, the second operand, the result of the last operation) is
\* normalized: scale >= 0 and (scale = 0 or the mantissa is no multiple of ten),
\* and a zero has mantissa 0 and scale 0.
C1_Normalized ==
    /\ Normalized(x)
    /\ y.kind = "Fx" => Normalized(y.fx)
    /\ r.kind = "Fx" => Normalized(r.fx)

\* a true division of operands that are results themselves, whose quotient lost
\* trailing zeros of the working scale
C1_Witness ==
    /\ pc = "done" /\ op = "truediv" /\ n >= 1
    /\ r.kind = "Fx" /\ r.fx.scale > 0 /\ r.fx.scale < MinPrecision

\* C2: for Fx values a and b, a == b is true exactly when
\* a.mantissa * 10^b.scale = b.mantissa * 10^a.scale, a != b is the negation of
\* a == b, and the same holds when b is a plain int.
C2_Equality ==
    (pc = "done" /\ op \in {"eq", "ne"}) =>
        /\ y.kind = "Fx" =>
               r.kind = "bool" /\ r.flag = ((op = "eq") <=> SameNumber(x, y.fx))
        /\ \A i \in -MaxInt..MaxInt :
               y = PyInt(i) =>
                   /\ r.kind = "bool"
                   /\ r.flag = ((op = "eq") <=> SameNumber(x, MkFx(IntOf(i), 0)))

\* Fx(3) != 3 is false
C2_Witness ==
    /\ pc = "done" /\ op = "ne"
    /\ x = MkFx(IntOf(3), 0) /\ y = PyInt(3)
    /\ r.kind = "bool" /\ ~r.flag

\* C3: == and != of an Fx against None or a list never raise: == is false and
\* != is true.
C3_NotComparable ==
    (pc = "done" /\ op \in {"eq", "ne"} /\ y.kind \in {"NoneType", "list"}) =>
        r.kind = "bool" /\ r.flag = (op = "ne")

\* a divisor whose mantissa is zero once coerced
ZeroDivisor(v) ==
    \/ v.kind = "Fx" /\ v.fx.value = IntZero
    \/ /\ v.kind \in {"int", "float", "str"}
       /\ v.text \in {<<"0">>, <<"0", ".", "0">>, <<"0", ".", "0", "0">>}

\* C4: a / b and a // b raise ZeroDivisionError for every dividend a when the
\* mantissa of the divisor is zero (an Fx zero, or 0, 0.0 or '0.00' coerced), and
\* so do the reflected forms n / Fx(0) and n // Fx(0); no result is produced and
\* neither operand changes.
C4_ZeroDivision ==
    [][(/\ pc = "ready"
        /\ pc' = "done"
        /\ \/ op' \in {"truediv", "floordiv"} /\ ZeroDivisor(y)
           \/ op' \in {"rtruediv", "rfloordiv"} /\ x.value = IntZero)
       => (/\ r'.kind = "raise"
           /\ r'.exc = "ZeroDivisionError"
           /\ x' = x
           /\ y' = y)]_vars

\* Fx(...) // '0.00' raised ZeroDivisionError
C4_Witness ==
    /\ pc = "done" /\ op = "floordiv"
    /\ y = PyStr(<<"0", ".", "0", "0">>)
    /\ x.value /= IntZero
    /\ r.kind = "raise" /\ r.exc = "ZeroDivisionError"

\* w = max(16, a.scale + b.scale + 4)
WorkingScale(a, b) == Max(16, a.scale + b.scale + 4)

\* C5: for b /= 0, a / b is the normalized form of (q, w), w being
\* max(16, a.scale + b.scale + 4) and q the floor of a' * 10^w / b' for the
\* mantissas a', b' aligned to max(a.scale, b.scale); so it is the quotient
\* itself when that has w fractional digits at most, and is less than 10^-w
\* away from it otherwise.
C5_TrueDivision ==
    (pc = "done" /\ op = "truediv" /\ y.kind = "Fx" /\ y.fx.value /= IntZero) =>
        /\ r.kind = "Fx"
        /\ Normalized(r.fx)
        /\ r.fx.scale <= WorkingScale(x, y.fx)
        /\ IsFloorQuotient(
               Scaled(r.fx, WorkingScale(x, y.fx)),
               IntMul(Scaled(x, Max(x.scale, y.fx.scale)),
                      IntPow10(WorkingScale(x, y.fx))),
               Scaled(y.fx, Max(x.scale, y.fx.scale)))

\* a quotient that keeps more than 16 fractional digits
C5_Witness ==
    /\ pc = "done" /\ op = "truediv" /\ y.kind = "Fx"
    /\ r.kind = "Fx" /\ r.fx.scale > 16

\* the sum, difference or product of the numbers a and b denote, over the
\* common denominator 10^(a.scale + b.scale)
Exact(o, a, b) ==
    IF o = "mul" THEN MkFx(IntMul(a.value, b.value), a.scale + b.scale)
    ELSE IF o = "add"
    THEN MkFx(IntAdd(IntMul(a.value, IntPow10(b.scale)), IntMul(b.value, IntPow10(a.scale))),
              a.scale + b.scale)
    ELSE MkFx(IntSub(IntMul(a.value, IntPow10(b.scale)), IntMul(b.value, IntPow10(a.scale))),
              a.scale + b.scale)

\* C6: for Fx values a and b of any scales and signs, a + b, a - b and a * b
\* denote the sum, the difference and the product of the numbers a and b
\* denote, with no rounding.
C6_ExactArithmetic ==
    (pc = "done" /\ op \in {"add", "sub", "mul"} /\ y.kind = "Fx") =>
        /\ r.kind = "Fx"
        /\ Normalized(r.fx)
        /\ SameNumber(r.fx, Exact(op, x, y.fx))

\* 1.432 + 5.1234 == 6.5554
C6_Witness ==
    /\ pc = "done" /\ op = "add"
    /\ x = MkFx(IntOf(1432), 3) /\ y = PyFx(MkFx(IntOf(51234), 4))
    /\ r.kind = "Fx" /\ r.fx = MkFx(IntOf(65554), 4)

\* C7: for b /= 0, a // b is the floor of the quotient a / b, also for a
\* negative operand, taken from the aligned mantissas, with scale 0.
C7_FloorDivision ==
    (pc = "done" /\ op = "floordiv" /\ y.kind = "Fx" /\ y.fx.value /= IntZero) =>
        /\ r.kind = "Fx"
        /\ r.fx.scale = 0
        /\ IsFloorQuotient(r.fx.value,
                           Scaled(x, Max(x.scale, y.fx.scale)),
                           Scaled(y.fx, Max(x.scale, y.fx.scale)))

\* -2.5 // 2 == -2, the floor of -1.25
C7_Witness ==
    /\ pc = "done" /\ op = "floordiv"
    /\ x = MkFx(IntOf(-25), 1) /\ y = PyFx(MkFx(IntOf(2), 0))
    /\ r.kind = "Fx" /\ r.fx = MkFx(IntOf(-2), 0)

\* m is a mod b for the remainder of floor division: a - m is a multiple of b
\* and m lies between 0 and b, on the side of b
IsFloorRemainder(m, a, b) ==
    /\ IntMod(IntSub(a, m), b) = IntZero
    /\ IF b.neg THEN IntLt(b, m) /\ IntLe(m, IntZero)
       ELSE IntLe(IntZero, m) /\ IntLt(m, b)

\* C8: for b /= 0, a % b is (a' mod b') / 10^s for the mantissas a', b' aligned
\* to s = max(a.scale, b.scale), mod being the remainder of floor division (its
\* sign is the divisor's); the result r is normalized and |r| < |b|.
C8_Modulo ==
    (pc = "done" /\ op = "mod" /\ y.kind = "Fx" /\ y.fx.value /= IntZero) =>
        /\ r.kind = "Fx"
        /\ Normalized(r.fx)
        /\ r.fx.scale <= Max(x.scale, y.fx.scale)
        /\ IsFloorRemainder(Scaled(r.fx, Max(x.scale, y.fx.scale)),
                            Scaled(x, Max(x.scale, y.fx.scale)),
                            Scaled(y.fx, Max(x.scale, y.fx.scale)))
        /\ r.fx.value /= IntZero => r.fx.value.neg = y.fx.value.neg
        /\ MagLt(Scaled(r.fx, Max(x.scale, y.fx.scale)).mag,
                 Scaled(y.fx, Max(x.scale, y.fx.scale)).mag)

\* 1.5 % -2.5 == -1
C8_Witness ==
    /\ pc = "done" /\ op = "mod"
    /\ x = MkFx(IntOf(15), 1) /\ y = PyFx(MkFx(IntOf(-25), 1))
    /\ r.kind = "Fx" /\ r.fx = MkFx(IntOf(-1), 0)

RECURSIVE IntPower(_, _)
\* a^k
IntPower(a, k) == IF k <= 0 THEN IntOne ELSE IntMul(IntPower(a, k - 1), a)

\* a whole number >= 0
IsWhole(f) == f.scale = 0 /\ ~f.value.neg

\* out is a ** e by the branch of repeated multiplication: mantissa
\* a.mantissa^e at scale a.scale * e, normalized, and 1 for e = 0
IsIntPower(out, a, e) ==
    /\ out.kind = "Fx"
    /\ out.via = "int"
    /\ Normalized(out.fx)
    /\ SameNumber(out.fx, MkFx(IntPower(a.value, e), a.scale * e))
    /\ e = 0 => out.fx = MkFx(IntOne, 0)

\* C9: when the exponent e, coerced to Fx, has scale 0 and a mantissa n >= 0,
\* a ** e is the n-fold product of a (mantissa a.mantissa^n at scale
\* a.scale * n, normalized), a ** 0 is 1 for every a, zero included, and the
\* branch of floating point is not taken; so for the reflected n ** Fx.
C9_IntegerPower ==
    /\ (/\ pc = "done" /\ op = "pow"
        /\ y.kind \in {"Fx", "int", "float"}
        /\ IsWhole(Coerce(y)))
       => IsIntPower(r, x, IntVal(Coerce(y).value))
    /\ (pc = "done" /\ op = "rpow" /\ IsWhole(x))
       => IsIntPower(r, Coerce(y), IntVal(x.value))

\* 2 ** 10 == 1024
C9_Witness ==
    /\ pc = "done" /\ op = "pow"
    /\ x = MkFx(IntOf(2), 0) /\ y = PyFx(MkFx(IntOf(10), 0))
    /\ r.kind = "Fx" /\ r.via = "int" /\ r.fx = MkFx(IntOf(1024), 0)

\* C10: a + b == b + a and a * b == b * a for Fx values a and b of any scales
\* and signs, the fields of both sides being the same.
C10_Commutative ==
    (pc = "done" /\ y.kind = "Fx") =>
        /\ op = "add" => r.kind = "Fx" /\ r.fx = __add__(y.fx, PyFx(x)).fx
        /\ op = "mul" => r.kind = "Fx" /\ r.fx = __mul__(y.fx, PyFx(x)).fx

\* a product of operands of different scales and signs
C10_Witness ==
    /\ pc = "done" /\ op = "mul" /\ y.kind = "Fx"
    /\ x.scale /= y.fx.scale /\ x.value.neg /= y.fx.value.neg
    /\ r.kind = "Fx" /\ r.fx.value /= IntZero

\* a + b for two Fx values
Sum(a, b) == __add__(a, PyFx(b)).fx

\* C11: (a + b) + c == a + (b + c) for all Fx a, b and c, whatever their scales
\* and signs and whatever the normalization of a + b or b + c removes: once
\* a + b is computed, adding any c to it gives the fields of a + (b + c).
C11_Associative ==
    (pc = "done" /\ op = "add" /\ y.kind = "Fx") =>
        /\ r.kind = "Fx"
        /\ \A c \in Seeds : Sum(r.fx, c) = Sum(x, Sum(y.fx, c))

\* a and b of different signs whose sum lost a fractional digit to _normalize
C11_Witness ==
    /\ pc = "done" /\ op = "add" /\ y.kind = "Fx" /\ r.kind = "Fx"
    /\ x.value.neg /= y.fx.value.neg
    /\ x.scale > 0 /\ r.fx.scale < x.scale
    /\ \E c \in Seeds :
           /\ c.scale > x.scale
           /\ Sum(y.fx, c).scale = c.scale
           /\ Sum(r.fx, c) = Sum(x, Sum(y.fx, c))

\* the place of the first '.' of s, Len(s) + 1 if there is none
DotAt(s) == IF Dots(s) = {} THEN Len(s) + 1 ELSE CHOOSE i \in Dots(s) : \A j \in Dots(s) : i <= j

IsSign(c) == c \in {"+", "-"}
AllDigits(t) == t /= <<>> /\ \A i \in 1..Len(t) : IsDigitChar(t[i])

\* the whole part (after a sign) and the fractional part of a literal
WholePart(s) == SubSeq(s, IF s /= <<>> /\ IsSign(s[1]) THEN 2 ELSE 1, DotAt(s) - 1)
FracPart(s) == SubSeq(s, DotAt(s) + 1, Len(s))

\* a decimal literal: an optional sign, digits, and optionally a '.' followed by
\* digits
IsDecimalLiteral(s) ==
    /\ Cardinality(Dots(s)) <= 1
    /\ AllDigits(WholePart(s))
    /\ Dots(s) /= {} => AllDigits(FracPart(s))

RECURSIVE DropZerosRight(_)
DropZerosRight(t) ==
    IF t /= <<>> /\ t[Len(t)] = "0" THEN DropZerosRight(SubSeq(t, 1, Len(t) - 1)) ELSE t

RECURSIVE DropZerosLeft(_)
DropZerosLeft(t) ==
    IF Len(t) > 1 /\ t[1] = "0" THEN DropZerosLeft(Tail(t)) ELSE t

\* the normalized text of a decimal literal: no trailing fractional zeros, no
\* empty fraction, no zeros before the first digit of the whole part, and '-'
\* only when a non-zero digit follows
NormalFrac(f) == IF f = <<>> THEN <<>> ELSE <<".">> \o f
NormalBody(w, f) == DropZerosLeft(w) \o NormalFrac(DropZerosRight(f))
NormalText(s) ==
    (IF s[1] = "-" /\ \E i \in 2..Len(s) : s[i] \in {"1", "2", "3", "4", "5", "6", "7", "8", "9"}
     THEN <<"-">> ELSE <<>>) \o NormalBody(WholePart(s), FracPart(s))

\* C12: str(Fx(s)) of a decimal literal s is the normalized text of s; the text
\* of any Fx has at least one digit before the point, exactly `scale` digits
\* after it (and no point when scale is 0), '-' only in front of a negative
\* value, and parsing the text again yields the same (mantissa, scale).
C12_StrRoundTrip ==
    (pc = "done" /\ op = "str") =>
        /\ r.kind = "str"
        /\ (lit.kind = "str" /\ IsDecimalLiteral(lit.text)) => r.text = NormalText(lit.text)
        /\ AllDigits(WholePart(r.text))
        /\ (r.text[1] = "-") = x.value.neg
        /\ Len(FracPart(r.text)) = x.scale
        /\ (Dots(r.text) = {}) = (x.scale = 0)
        /\ x.scale > 0 => AllDigits(FracPart(r.text))
        /\ __init__(PyStr(r.text)) = RetNew(x)

\* str(Fx('-0.050')) is '-0.05'
C12_Witness ==
    /\ pc = "done" /\ op = "str"
    /\ lit = PyStr(<<"-", "0", ".", "0", "5", "0">>)
    /\ r.kind = "str" /\ r.text = <<"-", "0", ".", "0", "5">>

DigitsOrNone(t) == \A i \in 1..Len(t) : IsDigitChar(t[i])

\* a decimal string with one '.': an optional sign and digits on at least one
\* side of the '.'
IsPointLiteral(s) ==
    /\ Cardinality(Dots(s)) = 1
    /\ DigitsOrNone(WholePart(s))
    /\ DigitsOrNone(FracPart(s))
    /\ WholePart(s) \o FracPart(s) /= <<>>

\* the digits of t as a number
DigitsValue(t) == MagTrim(SubSeq([i \in 1..Len(t) |-> CharDigit(t[i])], 1, Len(t)))

\* the integer the whole and fractional digits of s spell together, under the
\* sign of s
LitMantissa(s) == MkInt(s[1] = "-", DigitsValue(WholePart(s) \o FracPart(s)))

\* C13: Fx(s) for a decimal string s with one '.' is the value mantissa /
\* 10^scale with scale = the number of characters after the '.' and mantissa =
\* the integer of the whole and fractional digits concatenated under the sign of
\* the literal (also for '-0.5', '.5' and '5.'), in normalized form; Fx(n) for an
\* int n is (n, 0).
C13_Construct ==
    (pc = "done" /\ op = "init") =>
        /\ (lit.kind = "str" /\ IsPointLiteral(lit.text)) =>
               /\ r.kind = "Fx" /\ x = r.fx
               /\ Normalized(r.fx)
               /\ SameNumber(r.fx, MkFx(LitMantissa(lit.text), Len(FracPart(lit.text))))
        /\ \A i \in -(MaxInt + 5)..(MaxInt + 5) :
               lit = PyInt(i) => r.kind = "Fx" /\ x = r.fx /\ r.fx = MkFx(IntOf(i), 0)

\* Fx('-0.5') is (-5, 1)
C13_Witness ==
    /\ pc = "done" /\ op = "init"
    /\ lit = PyStr(<<"-", "0", ".", "5">>)
    /\ r.kind = "Fx" /\ r.fx = MkFx(IntOf(-5), 1) /\ x = r.fx

\* s holds more than one '.', or a character that is no digit, no '.' and no
\* sign in the first place
IsMalformed(s) ==
    \/ Cardinality(Dots(s)) > 1
    \/ \E i \in 1..Len(s) :
           /\ ~IsDigitChar(s[i])
           /\ s[i] /= "."
           /\ ~(i = 1 /\ IsSign(s[i]))

\* C14: Fx(s) raises ValueError and constructs no value whenever the string s
\* holds more than one '.' or a character that is not part of a decimal numeral
\* (a letter, a blank, an underscore, a sign after the first place).
C14_ParseError ==
    (pc = "done" /\ op = "init" /\ lit.kind = "str" /\ IsMalformed(lit.text)) =>
        r.kind = "raise" /\ r.exc = "ValueError"

\* C15: +, -, *, /, //, % and ** of an Fx with an operand that is neither an Fx
\* nor numeric-like (None, a list) raise UnexpectedTypeError and give no result.
C15_TypeMismatch ==
    (/\ pc = "done"
     /\ op \in {"add", "sub", "mul", "truediv", "floordiv", "mod", "pow"}
     /\ y.kind \in {"NoneType", "list"}) =>
        r.kind = "raise" /\ r.exc = "UnexpectedTypeError"

InPlaceOps == {"iadd", "isub", "imul", "ifloordiv"}

\* C16: no operation changes the mantissa or scale of a constructed instance.
\* An operator, comparison, conversion or copy() leaves the receiver (r.self,
\* the object x named when the call began) and the second operand with their
\* fields and the name x on its object; a compound update x op= y leaves the old
\* object with its fields and binds x to the result; a failed constructor binds
\* nothing; Fx(r) and r.copy() leave the object they read unchanged.
C16_Immutable ==
    [][/\ (pc = "ready" /\ pc' = "done" /\ op' /= "init") =>
              /\ r'.self = x
              /\ y' = y
              /\ x' = IF op' \in InPlaceOps /\ r'.kind = "Fx" THEN r'.fx ELSE x
       /\ (pc = "ready" /\ pc' = "done" /\ op' = "init") =>
              /\ y' = y
              /\ r'.kind /= "Fx" => x' = x
       /\ (pc = "done" /\ pc' = "ready" /\ op' = "copy") =>
              /\ r'.self = r.fx
              /\ r'.fx = r.fx
              /\ x' = x
       /\ (pc = "done" /\ pc' = "ready" /\ op' = "init") =>
              /\ x' = r.fx
              /\ y' = y]_vars

\* x += y has bound x to a sum that differs from the old object, which kept its
\* fields
C16_Witness ==
    /\ pc = "done" /\ op = "iadd"
    /\ r.kind = "Fx" /\ x = r.fx
    /\ r.self /= x
    /\ y.kind = "Fx" /\ n >= 1

\* the Fx values a session holds next to x
Held == (IF y.kind = "Fx" THEN {y.fx} ELSE {}) \cup SessionSeeds \cup Seeds

\* C17: for Fx values a and b a session can hold, a == b implies
\* hash(a) == hash(b): once hash(a) is taken, every b the comparator reports
\* equal to a has the same (mantissa, scale) pair and so the same hash.
C17_HashEqual ==
    (pc = "done" /\ op = "hash") =>
        /\ r.kind = "hash"
        /\ \A b \in Held :
               __eq__(x, PyFx(b)).flag =>
                   /\ __hash__(b).fx = r.fx
                   /\ b = x

\* hash(Fx('2.0')) against the equal Fx(2)
C17_Witness ==
    /\ pc = "done" /\ op = "hash"
    /\ lit = PyStr(<<"2", ".", "0">>)
    /\ y = PyFx(MkFx(IntOf(2), 0))
    /\ __eq__(x, y).flag
    /\ r.fx = __hash__(y.fx).fx

\* f < g as numbers: f.value * 10^g.scale < g.value * 10^f.scale
NumLt(f, g) ==
    IntLt(IntMul(f.value, IntPow10(g.scale)), IntMul(g.value, IntPow10(f.scale)))

\* how many of the three hold
Count3(p, q, s) == (IF p THEN 1 ELSE 0) + (IF q THEN 1 ELSE 0) + (IF s THEN 1 ELSE 0)

\* C18: <, <=, >, >= between Fx values of any scales, and between an Fx and a
\* plain int, give the numeric order of the values, and the order is total:
\* exactly one of a < b, a == b, a > b holds, a <= b iff not a > b, a >= b iff
\* not a < b, and a < b with b < c implies a < c.
C18_TotalOrder ==
    (pc = "done" /\ op \in {"gt", "ge", "lt", "le"} /\ y.kind \in {"Fx", "int"}) =>
        /\ r.kind = "bool"
        /\ op = "lt" => r.flag = NumLt(x, Coerce(y))
        /\ op = "gt" => r.flag = NumLt(Coerce(y), x)
        /\ op = "le" => r.flag = ~NumLt(Coerce(y), x)
        /\ op = "ge" => r.flag = ~NumLt(x, Coerce(y))
        /\ Count3(__lt__(x, y).flag, __eq__(x, y).flag, __gt__(x, y).flag) = 1
        /\ __le__(x, y).flag = ~__gt__(x, y).flag
        /\ __ge__(x, y).flag = ~__lt__(x, y).flag
        /\ \A c \in Seeds :
               (__lt__(x, y).flag /\ __lt__(Coerce(y), PyFx(c)).flag)
                   => __lt__(x, PyFx(c)).flag

\* Fx('1.2') < 2 is true
C18_Witness ==
    /\ pc = "done" /\ op = "lt"
    /\ x = MkFx(IntOf(12), 1) /\ y = PyInt(2)
    /\ r.kind = "bool" /\ r.flag
    /\ \E c \in Seeds : c.scale > 1 /\ __lt__(Coerce(y), PyFx(c)).flag /\ __lt__(x, PyFx(c)).flag

\* a o b for an Fx a and an operand b, as the interpreter evaluates it
Apply(o, a, b, fl) ==
    CASE o = "add" -> BinaryOp(__add__(a, b))
      [] o = "sub" -> BinaryOp(__sub__(a, b))
      [] o = "mul" -> BinaryOp(__mul__(a, b))
      [] o = "truediv" -> BinaryOp(__truediv__(a, b))
      [] o = "floordiv" -> BinaryOp(__floordiv__(a, b))
      [] o = "mod" -> BinaryOp(__mod__(a, b))
      [] o = "pow" -> BinaryOp(__pow__(a, b, fl))

\* the operator a reflected handler stands for
Forward(o) ==
    CASE o = "radd" -> "add"
      [] o = "rsub" -> "sub"
      [] o = "rmul" -> "mul"
      [] o = "rtruediv" -> "truediv"
      [] o = "rfloordiv" -> "floordiv"
      [] o = "rmod" -> "mod"
      [] o = "rpow" -> "pow"

\* two outcomes are the same value or the same exception
SameOutcome(p, q) == p.kind = q.kind /\ p.fx = q.fx /\ p.exc = q.exc

\* C19: a plain int n on either side of a binary operator behaves exactly like
\* Fx(n) = (n, 0): a op n is a op Fx(n) for +, -, *, /, //, %, **, and the
\* reflected n op a is Fx(n) op a, the operands keeping their sides.
C19_IntOperand ==
    \A i \in -MaxInt..MaxInt :
        (pc = "done" /\ y = PyInt(i)) =>
            /\ op \in {"add", "sub", "mul", "truediv", "floordiv", "mod", "pow"} =>
                   \E fl \in FloatPowTexts :
                       SameOutcome(r, Apply(op, x, PyFx(MkFx(IntOf(i), 0)), fl))
            /\ op \in {"radd", "rsub", "rmul", "rtruediv", "rfloordiv", "rmod", "rpow"} =>
                   \E fl \in FloatPowTexts :
                       SameOutcome(r, Apply(Forward(op), MkFx(IntOf(i), 0), PyFx(x), fl))

\* 5 - Fx('1.5') is 3.5
C19_Witness ==
    /\ pc = "done" /\ op = "rsub"
    /\ x = MkFx(IntOf(15), 1) /\ y = PyInt(5)
    /\ r.kind = "Fx" /\ r.fx = MkFx(IntOf(35), 1)

\* C20: bool(x) of an Fx is False exactly when the value is zero and True
\* otherwise, in agreement with is_zero().
C20_Truth ==
    (pc = "done" /\ op = "bool") =>
        /\ r.kind = "bool"
        /\ r.flag = (x.value /= IntZero)
        /\ r.flag = ~is_zero(x).flag

\* the pair f written with k more trailing zeros: (value * 10^k, scale + k)
Padded(f, k) == MkFx(IntMul(f.value, IntPow10(k)), f.scale + k)

\* trailing zeros appended to a pair, at most
MaxPad == 1

\* q, the pair _normalize returns for p, denotes the number of p and is
\* normalized, _normalize leaves q as it is, and p itself when p was normalized
NormalizeKeeps(p, q) ==
    /\ SameNumber(q, p)
    /\ Normalized(q)
    /\ _normalize(q) = q
    /\ Normalized(p) => q = p

\* C22: _normalize preserves the represented number, for positive and negative
\* mantissas (the pair it returns denotes the number of the pair it was given,
\* however many trailing zeros that pair carried), and it is idempotent: it
\* changes neither field of a pair that is normalized already.  The pairs are
\* those of the object the last operation returned, or of the receiver.
C22_Normalize ==
    \A f \in (IF r.kind = "Fx" THEN {r.fx} ELSE {x}) :
      \A k \in 0..MaxPad :
        NormalizeKeeps(Padded(f, k), _normalize(Padded(f, k)))

\* Fx('-0.50') was built: _normalize took (-50, 2) to (-5, 1), which it leaves
\* as it is
C22_Witness ==
    /\ pc = "done" /\ op = "init"
    /\ lit = PyStr(<<"-", "0", ".", "5", "0">>)
    /\ r.kind = "Fx" /\ r.fx = MkFx(IntOf(-5), 1)
    /\ _normalize(Padded(r.fx, 1)) = r.fx
    /\ _normalize(r.fx) = r.fx

\* (q * b) + m == a, computed with the operators of the class
Recombined(q, b, m, a) ==
    __eq__(__add__(__mul__(q, PyFx(b)).fx, PyFx(m)).fx, PyFx(a))

\* C27: floor division and modulo are consistent: for Fx a and b with b /= 0,
\* of any signs and scales, (a // b) * b + (a % b) == a.
C27_DivMod ==
    (pc = "done" /\ op \in {"floordiv", "mod"} /\ y.kind = "Fx"
        /\ y.fx.value /= IntZero) =>
        /\ r.kind = "Fx"
        /\ __floordiv__(x, y).kind = "Fx"
        /\ __mod__(x, y).kind = "Fx"
        /\ Recombined(__floordiv__(x, y).fx, y.fx, __mod__(x, y).fx, x).kind = "bool"
        /\ Recombined(__floordiv__(x, y).fx, y.fx, __mod__(x, y).fx, x).flag
        /\ __floordiv__(x, y).fx.scale = 0
        /\ IntAdd(IntMul(__floordiv__(x, y).fx.value,
                         Scaled(y.fx, Max(x.scale, y.fx.scale))),
                  Scaled(__mod__(x, y).fx, Max(x.scale, y.fx.scale)))
               = Scaled(x, Max(x.scale, y.fx.scale))

\* operands of two scales and two signs and a remainder that is not zero:
\* 1.432 // -2.5 == -1 and 1.432 % -2.5 == -1.068
C27_Witness ==
    /\ pc = "done" /\ op = "floordiv"
    /\ x = MkFx(IntOf(1432), 3) /\ y = PyFx(MkFx(IntOf(-25), 1))
    /\ r.kind = "Fx" /\ r.fx = MkFx(IntOf(-1), 0)
    /\ __mod__(x, y).fx = MkFx(IntOf(-1068), 3)

\* -f, the Fx that __neg__ returns
Neg(f) == __neg__(f).fx

\* C28: true division is symmetric in sign: for Fx a and b with b /= 0,
\* (-a) / b == -(a / b) and a / (-b) == -(a / b), also when the quotient does
\* not terminate within the working scale.
C28_SignSymmetry ==
    (pc = "done" /\ op = "truediv" /\ y.kind = "Fx" /\ y.fx.value /= IntZero) =>
        /\ r.kind = "Fx"
        /\ __eq__(__truediv__(Neg(x), y).fx, PyFx(Neg(r.fx))).flag
        /\ __eq__(__truediv__(x, PyFx(Neg(y.fx))).fx, PyFx(Neg(r.fx))).flag

\* C30: a % b raises ZeroDivisionError for every a when the divisor is zero
\* (an Fx zero, or a plain 0, 0.0 or '0.00' coerced), and so does the reflected
\* form n % Fx(0); no value is returned and neither operand changes.
C30_ModByZero ==
    [][(/\ pc = "ready"
        /\ pc' = "done"
        /\ \/ op' = "mod" /\ ZeroDivisor(y)
           \/ op' = "rmod" /\ x.value = IntZero)
       => (/\ r'.kind = "raise"
           /\ r'.exc = "ZeroDivisionError"
           /\ x' = x
           /\ y' = y)]_vars

\* 5 % Fx(0) raised ZeroDivisionError
C30_Witness ==
    /\ pc = "done" /\ op = "rmod"
    /\ x = MkFx(IntZero, 0) /\ y = PyInt(5)
    /\ r.kind = "raise" /\ r.exc = "ZeroDivisionError"

\* the number f denotes is whole: 10^scale divides the mantissa
Whole(f) == IntMod(f.value, IntPow10(f.scale)) = IntZero

\* C21: for every Fx a a session of public operations reaches (positive, zero
\* or negative), a.is_integer() is true exactly when mantissa / 10^scale is a
\* whole number, and lib.is_whole(a), computed as a % 1 == 0, gives the same
\* answer.
C21_Whole ==
    /\ (pc = "done" /\ op = "is_integer") =>
           /\ r.kind = "bool"
           /\ r.flag = Whole(x)
           /\ is_whole(PyFx(x)).kind = "bool"
           /\ is_whole(PyFx(x)).flag = r.flag
    /\ (pc = "done" /\ op = "is_whole") =>
           /\ r.kind = "bool"
           /\ r.flag = Whole(x)
           /\ r.flag = is_integer(x).flag
    /\ (pc = "done" /\ op = "is_whole_y" /\ y.kind = "Fx") =>
           /\ r.kind = "bool"
           /\ r.flag = Whole(y.fx)
           /\ r.flag = is_integer(y.fx).flag

\* is_integer() of a negative whole result of an earlier operation
C21_Witness ==
    /\ pc = "done" /\ op = "is_integer" /\ n >= 1
    /\ lit.kind = "Fx"
    /\ x.value.neg /\ r.kind = "bool" /\ r.flag
    /\ is_whole(PyFx(x)).flag

\* the calls of the log that read an attribute
Accesses == {i \in 1..Len(tlog) : tlog[i].op \in {"getattr", "str"}}

\* C25: a Temporary gives access to its wrapped value at most once: in any
\* sequence of calls on one Temporary the first attribute access clears the
\* wrapped value and every later access raises AttributeError; assignment and
\* deletion of an attribute always raise AttributeError and leave the field as
\* it was, so that they never restore the value.
C25_SingleAccess ==
    /\ Accesses /= {} => wrapped = PyNone
    /\ \A i \in 1..Len(tlog) :
           /\ (i \in Accesses /\ \E j \in Accesses : j < i) =>
                  tlog[i].kind = "raise" /\ tlog[i].exc = "AttributeError"
           /\ i \in Accesses => tlog[i].wrapped = PyNone
           /\ i \notin Accesses =>
                  /\ tlog[i].kind = "raise" /\ tlog[i].exc = "AttributeError"
                  /\ i > 1 => tlog[i].wrapped = tlog[i - 1].wrapped

\* t.value gave the wrapped Fx, t.value = ... was refused, and the next t.value
\* raised
C25_Witness ==
    /\ Len(tlog) = 3
    /\ tlog[1].op = "getattr" /\ tlog[1].name = "value"
    /\ tlog[1].kind = "value" /\ tlog[1].val.kind = "Fx"
    /\ tlog[2].op = "setattr" /\ tlog[2].name = "value"
    /\ tlog[3].op = "getattr" /\ tlog[3].kind = "raise"
    /\ wrapped = PyNone

\* C26: memoization is transparent: every call of the wrapped function, in any
\* sequence of calls and under any clean / max_cache setting, returns what the
\* function itself returns for those positional and keyword arguments (also
\* after the oldest entry was evicted), and a call whose arguments are still
\* cached does not invoke the function again.
C26_Transparent ==
    calls >= 1 =>
        /\ mout.out = power(mout.call)
        /\ mout.cached => ~mout.invoked

\* the unit u was built from an int
FromInt(u) == u.raw_value.kind = "int"

\* the milliseconds attribute as an integer, None counting as 0
MsField(u) == IF u.milliseconds = PyNone THEN IntZero ELSE ToInt(u.milliseconds)

\* C23: for time units a and b built from integers, a + b and a - b are Second
\* instances whose total value * 1000 + milliseconds is the total of a's
\* milliseconds plus (minus) b's, with 0 <= milliseconds < 1000; a plain number
\* operand counts as seconds.
C23_TimeSum ==
    (uout.op \in {"add", "sub"} /\ ua.cls \in TimeClasses /\ FromInt(ua)
        /\ ub.cls \in TimeClasses \cup {"int"}) =>
        /\ uout.kind = "unit"
        /\ uout.unit.cls = "Second"
        /\ IntAdd(IntMul(uout.unit.value, IntOf(1000)), MsField(uout.unit))
               = IF uout.op = "add"
                 THEN IntAdd(__millisecond__(ua), OtherMs(ub))
                 ELSE IntSub(__millisecond__(ua), OtherMs(ub))
        /\ IntLe(IntZero, MsField(uout.unit))
        /\ IntLt(MsField(uout.unit), IntOf(1000))

\* the metric weight units a and b
Metric(u) == u.cls \in WeightClasses

\* C24: for metric weight units a and b, (a + b).__kilogram__() is
\* a.__kilogram__() + b.__kilogram__() and (a - b).__kilogram__() is
\* a.__kilogram__() - b.__kilogram__(), also when the result is fractional or
\* negative.
C24_WeightSum ==
    (uout.op \in {"add", "sub"} /\ Metric(ua) /\ Metric(ub)) =>
        /\ uout.kind = "unit"
        /\ uout.unit.cls = "Kilogram"
        /\ __kilogram__(uout.unit)
               = IF uout.op = "add"
                 THEN __add__(__kilogram__(ua), PyFx(__kilogram__(ub))).fx
                 ELSE __sub__(__kilogram__(ua), PyFx(__kilogram__(ub))).fx

\* C29: Hour, Minute or Second built from a float x whose duration is a whole
\* number of milliseconds keeps the duration: __millisecond__() is x times
\* 3600000, 60000 or 1000.
C29_FloatDuration ==
    (uout.op = "new" /\ uout.kind = "unit"
        /\ uout.unit.cls \in {"Hour", "Minute", "Second"}
        /\ uout.unit.raw_value.kind = "float"
        /\ Whole(TimesFactor(fx(uout.unit.raw_value).fx,
                             IntVal(ConversionFactor(uout.unit.cls))))) =>
        MkFx(__millisecond__(uout.unit), 0)
            = TimesFactor(fx(uout.unit.raw_value).fx,
                          IntVal(ConversionFactor(uout.unit.cls)))

====
